---- MODULE Spec2Model ----
(***************************************************************************)
(* AgLens (ArchLens): the design-canvas store (store/useAppStore.ts), the  *)
(* fuzzy matcher and extract parser (lib/extract.ts), and the streaming    *)
(* assembler (services/anthropic.ts), as state machines.                   *)
(*                                                                         *)
(* Texts are sequences of one-character strings, so that canonicalize,     *)
(* tokenSet, includes and the start-tag match are computed character by    *)
(* character as the code computes them.                                    *)
(***************************************************************************)
EXTENDS Integers, Sequences, FiniteSets, TLC

(***************************************************************************)
(* Bounds of the model.                                                    *)
(***************************************************************************)
\* the most entities (options + decisions + constraints + questions +
\* references) a canvas holds in the model
MaxEntities == 3
\* the most text fragments one streamed reply is cut into
MaxFragments == 3
\* the most chunks reader.read() delivers one response body in
MaxChunks == 3
\* the most failures the log is made to evict
MaxEvictions == 2
\* the most messages a conversation is given
MaxMessages == 4
\* the most requests the model lets be in flight at once
MaxInFlight == 2
\* applyExtract calls on the whole space, and messages of its conversation
MaxApplies == 2
\* operations on the store's list of spaces in one run
MaxStoreOps == 4

(***************************************************************************)
(* Generic sequence helpers (Array.prototype.map / filter / find).         *)
(***************************************************************************)
Range(s) == {s[i] : i \in DOMAIN s}

Min2(a, b) == IF a <= b THEN a ELSE b

\* index of the first element satisfying P, 0 when none (Array.find/findIndex)
FindIndex(s, P(_)) ==
  IF \E i \in DOMAIN s : P(s[i])
    THEN CHOOSE i \in DOMAIN s : P(s[i]) /\ \A j \in 1..(i - 1) : ~P(s[j])
    ELSE 0

\* index of the last element satisfying P, 0 when none ([...s].reverse().find)
FindLastIndex(s, P(_)) ==
  IF \E i \in DOMAIN s : P(s[i])
    THEN CHOOSE i \in DOMAIN s : P(s[i]) /\ \A j \in (i + 1)..Len(s) : ~P(s[j])
    ELSE 0

RemoveAt(s, i) == SubSeq(s, 1, i - 1) \o SubSeq(s, i + 1, Len(s))

InsertAt(s, i, x) == SubSeq(s, 1, i - 1) \o <<x>> \o SubSeq(s, i, Len(s))

(***************************************************************************)
(* Texts.                                                                  *)
(***************************************************************************)
UpperChars == <<"A","B","C","D","E","F","G","H","I","J","K","L","M",
                "N","O","P","Q","R","S","T","U","V","W","X","Y","Z">>
LowerChars == <<"a","b","c","d","e","f","g","h","i","j","k","l","m",
                "n","o","p","q","r","s","t","u","v","w","x","y","z">>
DigitChars == {"0","1","2","3","4","5","6","7","8","9"}
SpaceChars == {" ", "\n", "\t"}

\* String.prototype.toLowerCase, one character
toLowerChar(c) ==
  IF \E i \in DOMAIN UpperChars : UpperChars[i] = c
    THEN LowerChars[CHOOSE i \in DOMAIN UpperChars : UpperChars[i] = c]
    ELSE c

toLowerCase(t) == [i \in DOMAIN t |-> toLowerChar(t[i])]

RECURSIVE trimStart(_)
trimStart(t) ==
  IF Len(t) > 0 /\ t[1] \in SpaceChars THEN trimStart(Tail(t)) ELSE t

RECURSIVE trimEnd(_)
trimEnd(t) ==
  IF Len(t) > 0 /\ t[Len(t)] \in SpaceChars
    THEN trimEnd(SubSeq(t, 1, Len(t) - 1))
    ELSE t

trim(t) == trimEnd(trimStart(t))

\* String.prototype.includes
includes(t, u) ==
  \E k \in 0..(Len(t) - Len(u)) : SubSeq(t, k + 1, k + Len(u)) = u

\* lib/design.ts normalize
normalize(t) == IF Len(t) = 0 THEN <<>> ELSE toLowerCase(trim(t))

\* .replace(/[^a-z0-9\s]/g, " ")
replaceNonAlnum(t) ==
  [i \in DOMAIN t |->
     IF t[i] \in Range(LowerChars) \cup DigitChars \cup SpaceChars
       THEN t[i] ELSE " "]

\* .replace(/\s+/g, " ")
RECURSIVE collapseSpaces(_)
collapseSpaces(t) ==
  IF Len(t) = 0 THEN <<>>
  ELSE IF t[1] \in SpaceChars
    THEN <<" ">> \o collapseSpaces(trimStart(t))
    ELSE <<t[1]>> \o collapseSpaces(Tail(t))

\* .replace(/\s+/g, "")
compact(t) == SelectSeq(t, LAMBDA c : c \notin SpaceChars)

canonicalize(t) == trim(collapseSpaces(replaceNonAlnum(normalize(t))))

\* String.prototype.split(" "): the words between single spaces
RECURSIVE splitSpace(_, _)
splitSpace(t, cur) ==
  IF Len(t) = 0 THEN <<cur>>
  ELSE IF t[1] = " "
    THEN <<cur>> \o splitSpace(Tail(t), <<>>)
    ELSE splitSpace(Tail(t), Append(cur, t[1]))

tokensOf(t) == SelectSeq(splitSpace(canonicalize(t), <<>>), LAMBDA w : Len(w) > 2)

tokenSet(t) ==
  LET tokens == tokensOf(t)
  IN Range(tokens) \cup {tokens[i] \o tokens[i + 1] : i \in 1..(Len(tokens) - 1)}

\* similarity(a, b) >= 0.72, on the integers: intersection / union >= 72 / 100
similarityAtLeastThreshold(a, b) ==
  LET aSet == tokenSet(a)
      bSet == tokenSet(b)
  IN IF aSet = {} \/ bSet = {} THEN FALSE
     ELSE 100 * Cardinality(aSet \cap bSet) >= 72 * Cardinality(aSet \cup bSet)

isNearDuplicate(a, b) ==
  LET aCanon == canonicalize(a)
      bCanon == canonicalize(b)
      aCompact == compact(aCanon)
      bCompact == compact(bCanon)
      aSet == tokenSet(aCanon)
      bSet == tokenSet(bCanon)
      intersection == Cardinality(aSet \cap bSet)
      minSize == Min2(Cardinality(aSet), Cardinality(bSet))
  IN IF Len(aCanon) = 0 \/ Len(bCanon) = 0 THEN FALSE
     ELSE IF \/ aCanon = bCanon
             \/ includes(aCanon, bCanon)
             \/ includes(bCanon, aCanon)
             \/ includes(aCompact, bCompact)
             \/ includes(bCompact, aCompact)
       THEN TRUE
     ELSE IF intersection >= 2 /\ minSize > 0 /\ 10 * intersection >= 4 * minSize
       THEN TRUE
     ELSE similarityAtLeastThreshold(aCanon, bCanon)

(***************************************************************************)
(* The texts the model's operations are given.                             *)
(***************************************************************************)
\* the titles the manual add operations give (useAppStore.ts)
tNewOption == <<"N","e","w"," ","o","p","t","i","o","n">>
tNewDecision == <<"N","e","w"," ","d","e","c","i","s","i","o","n">>
tNewConstraint == <<"N","e","w"," ","c","o","n","s","t","r","a","i","n","t">>
tNewQuestion == <<"N","e","w"," ","q","u","e","s","t","i","o","n">>
tImportedItem == <<"I","m","p","o","r","t","e","d"," ","i","t","e","m">>
\* texts a reply's extract or a dropped fragment carries
tRedis == <<"R","e","d","i","s">>
tUseRedis == <<"u","s","e"," ","r","e","d","i","s","!">>
tKafka == <<"K","a","f","k","a">>
tKafkaLog == <<"K","a","f","k","a","\n","l","o","g">>
tBlank == <<" ">>

(***************************************************************************)
(* The design canvas (types/design.ts) and the store's updaters            *)
(* (store/useAppStore.ts).  Of each entity the model keeps the id, the     *)
(* text the merge dedupes on, the status and the link.                     *)
(***************************************************************************)
\* JavaScript's undefined, for an optional id
undefined == 0

\* crypto.randomUUID() draws from these
Ids == 1..(2 * MaxEntities + 2)

createEmptyCanvas ==
  [problem_statement |-> <<>>,
   active_option_id |-> undefined,
   options |-> <<>>,
   decisions |-> <<>>,
   constraints |-> <<>>,
   open_questions |-> <<>>,
   references |-> <<>>]

IdsOf(items) == {items[i].id : i \in DOMAIN items}

EntityIds(c) ==
  IdsOf(c.options) \cup IdsOf(c.decisions) \cup IdsOf(c.constraints)
    \cup IdsOf(c.open_questions) \cup IdsOf(c.references)

Entities(c) ==
  Len(c.options) + Len(c.decisions) + Len(c.constraints)
    + Len(c.open_questions) + Len(c.references)

\* every id the canvas holds or mentions
UsedIds(c) ==
  (EntityIds(c) \cup {c.active_option_id}
     \cup {c.decisions[i].option_id : i \in DOMAIN c.decisions}
     \cup {c.constraints[i].decision_id : i \in DOMAIN c.constraints}
     \cup {c.open_questions[i].decision_id : i \in DOMAIN c.open_questions}
     \cup {c.references[i].decision_id : i \in DOMAIN c.references})
    \ {undefined}

\* newId(): a UUID no entity has and nothing mentions; the least such id
\* stands for all of them
newId(c) ==
  CHOOSE i \in Ids \ UsedIds(c) : \A j \in Ids \ UsedIds(c) : i <= j

\* lib/design.ts statusCycle
statusCycle(status) ==
  IF status = "considering" THEN "selected"
  ELSE IF status = "selected" THEN "rejected"
  ELSE "considering"

\* lib/design.ts reorder
reorder(items, index, direction) ==
  LET target == IF direction = "up" THEN index - 1 ELSE index + 1
  IN IF index < 1 \/ target < 1 \/ index > Len(items) \/ target > Len(items)
       THEN items
       ELSE [items EXCEPT ![index] = items[target], ![target] = items[index]]

\* moveById that puts the dragged item before the target, wherever the
\* dragged item came from
moveByIdBeforeTarget(items, draggedId, targetId) ==
  LET fromIndex == FindIndex(items, LAMBDA item : item.id = draggedId)
      toIndex == FindIndex(items, LAMBDA item : item.id = targetId)
  IN IF fromIndex = 0 \/ toIndex = 0 \/ fromIndex = toIndex
       THEN items
       ELSE InsertAt(RemoveAt(items, fromIndex),
                     IF fromIndex < toIndex THEN toIndex - 1 ELSE toIndex,
                     items[fromIndex])

moveById(items, draggedId, targetId) ==
  LET fromIndex == FindIndex(items, LAMBDA item : item.id = draggedId)
      toIndex == FindIndex(items, LAMBDA item : item.id = targetId)
  IN IF fromIndex = 0 \/ toIndex = 0 \/ fromIndex = toIndex
       THEN items
       ELSE InsertAt(RemoveAt(items, fromIndex), toIndex, items[fromIndex])

\* text.split("\n")[0]
RECURSIVE firstLine(_)
firstLine(t) ==
  IF Len(t) = 0 \/ t[1] = "\n" THEN <<>> ELSE <<t[1]>> \o firstLine(Tail(t))

TitleSlice == 80

compactTitle(text) ==
  LET line == firstLine(trim(text))
      cut == SubSeq(line, 1, Min2(Len(line), TitleSlice))
  IN IF Len(cut) = 0 THEN tImportedItem ELSE cut

ensureActiveOption(active_option_id, options) ==
  IF active_option_id # undefined
       /\ \E i \in DOMAIN options : options[i].id = active_option_id
    THEN active_option_id
    ELSE IF Len(options) > 0 THEN options[1].id ELSE undefined

\* the decision a new constraint, question or reference is attached to
targetDecisionId(c) ==
  LET k == FindLastIndex(c.decisions,
                         LAMBDA decision : decision.option_id = c.active_option_id)
  IN IF k # 0 THEN c.decisions[k].id
     ELSE IF Len(c.decisions) > 0 THEN c.decisions[Len(c.decisions)].id
     ELSE undefined

setActiveOption(c, optionId) ==
  [c EXCEPT !.active_option_id =
     IF \E i \in DOMAIN c.options : c.options[i].id = optionId THEN optionId ELSE @]

clearActiveOption(c) == [c EXCEPT !.active_option_id = undefined]

addOption(c) ==
  LET options == Append(c.options,
                        [id |-> newId(c), title |-> tNewOption, status |-> "considering"])
  IN [c EXCEPT !.options = options,
               !.active_option_id = ensureActiveOption(c.active_option_id, options)]

clearDecisionId(items, id) ==
  [i \in DOMAIN items |->
     IF items[i].decision_id # undefined /\ items[i].decision_id = id
       THEN [items[i] EXCEPT !.decision_id = undefined]
       ELSE items[i]]

\* deleteOption as it would be if it deleted the option's decisions with it
deleteOptionCascading(c, id) ==
  LET options == SelectSeq(c.options, LAMBDA item : item.id # id)
  IN [c EXCEPT
        !.options = options,
        !.active_option_id =
          ensureActiveOption(IF c.active_option_id = id THEN undefined
                                                        ELSE c.active_option_id,
                             options),
        !.decisions = SelectSeq(c.decisions, LAMBDA decision : decision.option_id # id)]

deleteOption(c, id) ==
  LET options == SelectSeq(c.options, LAMBDA item : item.id # id)
  IN [c EXCEPT
        !.options = options,
        !.active_option_id =
          ensureActiveOption(IF c.active_option_id = id THEN undefined
                                                        ELSE c.active_option_id,
                             options),
        !.decisions = [i \in DOMAIN c.decisions |->
                         IF c.decisions[i].option_id = id
                           THEN [c.decisions[i] EXCEPT !.option_id = undefined]
                           ELSE c.decisions[i]],
        !.constraints = clearDecisionId(c.constraints, id),
        !.open_questions = clearDecisionId(c.open_questions, id),
        !.references = clearDecisionId(c.references, id)]

reorderOption(c, id, direction) ==
  [c EXCEPT !.options =
     reorder(c.options, FindIndex(c.options, LAMBDA item : item.id = id), direction)]

moveOption(c, draggedId, targetId) ==
  [c EXCEPT !.options = moveById(c.options, draggedId, targetId)]

\* the first option that is not rejected, undefined when there is none
firstNotRejected(options) ==
  LET k == FindIndex(options, LAMBDA o : o.status # "rejected")
  IN IF k = 0 THEN undefined ELSE options[k].id

cycleOptionStatus(c, id) ==
  LET options == [i \in DOMAIN c.options |->
                    IF c.options[i].id = id
                      THEN [c.options[i] EXCEPT !.status = statusCycle(@)]
                      ELSE c.options[i]]
      k == FindIndex(options, LAMBDA option : option.id = id)
      a1 == IF k # 0 /\ options[k].status = "selected"
              THEN options[k].id ELSE c.active_option_id
      a2 == IF k # 0 /\ options[k].status = "rejected" /\ a1 = options[k].id
              THEN firstNotRejected(options) ELSE a1
  IN [c EXCEPT !.options = options, !.active_option_id = a2]

promoteToDecision(c, optionId) ==
  LET k == FindIndex(c.options, LAMBDA o : o.id = optionId)
  IN IF k = 0 THEN c
     ELSE [c EXCEPT
             !.options = [i \in DOMAIN c.options |->
                            IF c.options[i].id = optionId
                              THEN [c.options[i] EXCEPT !.status = "selected"]
                              ELSE c.options[i]],
             !.active_option_id = optionId,
             !.decisions = Append(@, [id |-> newId(c),
                                      title |-> IF Len(c.options[k].title) > 0
                                                  THEN c.options[k].title
                                                  ELSE tNewDecision,
                                      option_id |-> optionId])]

rejectOption(c, optionId) ==
  LET options == [i \in DOMAIN c.options |->
                    IF c.options[i].id = optionId
                      THEN [c.options[i] EXCEPT !.status = "rejected"]
                      ELSE c.options[i]]
  IN [c EXCEPT !.options = options,
               !.active_option_id =
                 IF @ = optionId THEN firstNotRejected(options) ELSE @]

\* addDecision with the new decision put first
addDecisionFirst(c) ==
  [c EXCEPT !.decisions = <<[id |-> newId(c), title |-> tNewDecision,
                             option_id |-> c.active_option_id]>> \o @]

addDecision(c) ==
  [c EXCEPT !.decisions = Append(@, [id |-> newId(c), title |-> tNewDecision,
                                     option_id |-> c.active_option_id])]

\* updateDecision with the patch {option_id}
updateDecision(c, id, option_id) ==
  [c EXCEPT !.decisions = [i \in DOMAIN c.decisions |->
                             IF c.decisions[i].id = id
                               THEN [c.decisions[i] EXCEPT !.option_id = option_id]
                               ELSE c.decisions[i]]]

\* deleteDecision as it would be if it left the references' links alone
deleteDecisionForgettingReferences(c, id) ==
  [c EXCEPT
     !.decisions = SelectSeq(c.decisions, LAMBDA item : item.id # id),
     !.constraints = clearDecisionId(c.constraints, id),
     !.open_questions = clearDecisionId(c.open_questions, id)]

deleteDecision(c, id) ==
  [c EXCEPT
     !.decisions = SelectSeq(c.decisions, LAMBDA item : item.id # id),
     !.constraints = [i \in DOMAIN c.constraints |->
                        IF c.constraints[i].decision_id = id
                          THEN [c.constraints[i] EXCEPT !.decision_id = undefined]
                          ELSE c.constraints[i]],
     !.open_questions = [i \in DOMAIN c.open_questions |->
                           IF c.open_questions[i].decision_id = id
                             THEN [c.open_questions[i] EXCEPT !.decision_id = undefined]
                             ELSE c.open_questions[i]],
     !.references = [i \in DOMAIN c.references |->
                       IF c.references[i].decision_id = id
                         THEN [c.references[i] EXCEPT !.decision_id = undefined]
                         ELSE c.references[i]]]

reorderDecision(c, id, direction) ==
  [c EXCEPT !.decisions =
     reorder(c.decisions, FindIndex(c.decisions, LAMBDA item : item.id = id), direction)]

moveDecision(c, draggedId, targetId) ==
  [c EXCEPT !.decisions = moveById(c.decisions, draggedId, targetId)]

reopenDecision(c, id) ==
  LET k == FindIndex(c.decisions, LAMBDA item : item.id = id)
      optionId == newId(c)
  IN IF k = 0 THEN c
     ELSE [c EXCEPT
             !.decisions = SelectSeq(c.decisions, LAMBDA item : item.id # id),
             !.options = Append(@, [id |-> optionId, title |-> c.decisions[k].title,
                                    status |-> "considering"]),
             !.active_option_id = optionId]

addConstraint(c) ==
  [c EXCEPT !.constraints =
     Append(@, [id |-> newId(c), description |-> tNewConstraint,
                decision_id |-> targetDecisionId(c)])]

addQuestion(c) ==
  [c EXCEPT !.open_questions =
     Append(@, [id |-> newId(c), question |-> tNewQuestion, status |-> "open",
                decision_id |-> targetDecisionId(c)])]

addReference(c, label) ==
  [c EXCEPT !.references =
     Append(@, [id |-> newId(c), label |-> label,
                decision_id |-> targetDecisionId(c)])]

\* updateConstraint / updateQuestion / updateReference with the patch
\* {decision_id: undefined}, the canvas's "unlink"
unlinkItem(c, kind, id) ==
  LET clear(items) == [i \in DOMAIN items |->
                         IF items[i].id = id
                           THEN [items[i] EXCEPT !.decision_id = undefined]
                           ELSE items[i]]
  IN IF kind = "constraint" THEN [c EXCEPT !.constraints = clear(@)]
     ELSE IF kind = "question" THEN [c EXCEPT !.open_questions = clear(@)]
     ELSE [c EXCEPT !.references = clear(@)]

\* deleteConstraint / deleteQuestion / deleteReference
deleteItem(c, kind, id) ==
  LET drop(items) == SelectSeq(items, LAMBDA item : item.id # id)
  IN IF kind = "constraint" THEN [c EXCEPT !.constraints = drop(@)]
     ELSE IF kind = "question" THEN [c EXCEPT !.open_questions = drop(@)]
     ELSE [c EXCEPT !.references = drop(@)]

\* reorderConstraint / reorderQuestion / reorderReference
reorderItem(c, kind, id, direction) ==
  LET swap(items) ==
        reorder(items, FindIndex(items, LAMBDA item : item.id = id), direction)
  IN IF kind = "constraint" THEN [c EXCEPT !.constraints = swap(@)]
     ELSE IF kind = "question" THEN [c EXCEPT !.open_questions = swap(@)]
     ELSE [c EXCEPT !.references = swap(@)]

\* moveConstraint / moveQuestion / moveReference
moveItem(c, kind, draggedId, targetId) ==
  IF kind = "constraint"
    THEN [c EXCEPT !.constraints = moveById(@, draggedId, targetId)]
  ELSE IF kind = "question"
    THEN [c EXCEPT !.open_questions = moveById(@, draggedId, targetId)]
  ELSE [c EXCEPT !.references = moveById(@, draggedId, targetId)]

toggleQuestionStatus(c, id) ==
  [c EXCEPT !.open_questions = [i \in DOMAIN c.open_questions |->
     IF c.open_questions[i].id = id
       THEN [c.open_questions[i] EXCEPT
               !.status = IF @ = "open" THEN "resolved" ELSE "open"]
       ELSE c.open_questions[i]]]

linkToDecision(c, kind, itemId, decisionId) ==
  LET link(items) == [i \in DOMAIN items |->
                        IF items[i].id = itemId
                          THEN [items[i] EXCEPT !.decision_id = decisionId]
                          ELSE items[i]]
  IN IF kind = "constraint" THEN [c EXCEPT !.constraints = link(@)]
     ELSE IF kind = "question" THEN [c EXCEPT !.open_questions = link(@)]
     ELSE [c EXCEPT !.references = link(@)]

dropTextToCanvas(c, target, text) ==
  LET dropped == trim(text)
  IN IF Len(dropped) = 0 THEN c
     ELSE IF target = "problem_statement"
       THEN [c EXCEPT !.problem_statement =
               IF Len(@) > 0 THEN @ \o <<"\n">> \o dropped ELSE dropped]
     ELSE IF target = "options"
       THEN LET options == Append(c.options,
                                  [id |-> newId(c), title |-> compactTitle(dropped),
                                   status |-> "considering"])
            IN [c EXCEPT !.options = options,
                         !.active_option_id =
                           ensureActiveOption(c.active_option_id, options)]
     ELSE IF target = "decisions"
       THEN [c EXCEPT !.decisions =
               Append(@, [id |-> newId(c), title |-> compactTitle(dropped),
                          option_id |-> c.active_option_id])]
     ELSE IF target = "constraints"
       THEN [c EXCEPT !.constraints =
               Append(@, [id |-> newId(c), description |-> dropped,
                          decision_id |-> targetDecisionId(c)])]
     ELSE IF target = "open_questions"
       THEN [c EXCEPT !.open_questions =
               Append(@, [id |-> newId(c), question |-> compactTitle(dropped),
                          status |-> "open", decision_id |-> targetDecisionId(c)])]
     ELSE [c EXCEPT !.references =
             Append(@, [id |-> newId(c), label |-> compactTitle(dropped),
                        decision_id |-> targetDecisionId(c)])]

(***************************************************************************)
(* applyExtract (store/useAppStore.ts).  An extract is the record the      *)
(* parser hands over; notIterable names the array fields that the reply's  *)
(* JSON gave a non-iterable value (null, a number), over which the         *)
(* for...of loop throws.                                                   *)
(***************************************************************************)
createEmptyExtract ==
  [problem_statement_update |-> <<>>,
   new_options |-> <<>>,
   update_options |-> <<>>,
   option_status_changes |-> <<>>,
   new_decisions |-> <<>>,
   update_decisions |-> <<>>,
   new_constraints |-> <<>>,
   new_open_questions |-> <<>>,
   resolved_questions |-> <<>>,
   notIterable |-> {}]

\* every text a canvas or an extract of the model holds
Texts ==
  {tNewOption, tNewDecision, tNewConstraint, tNewQuestion, tImportedItem,
   tRedis, tUseRedis, tKafka, tKafkaLog, tBlank, <<>>}

\* the pairs of the model's texts that isNearDuplicate holds of, tabulated once
nearDuplicates ==
  {q : q \in {p \in Texts \X Texts : isNearDuplicate(p[1], p[2])}}

\* the duplicate test as it would be if it only caught equal texts
existsEqualText(items, field, text) ==
  \E i \in DOMAIN items : items[i][field] = text

existsNearDuplicate(items, field, text) ==
  \E i \in DOMAIN items : <<items[i][field], text>> \in nearDuplicates

RECURSIVE mergeNewOptions(_, _)
mergeNewOptions(c, proposed) ==
  IF Len(proposed) = 0 THEN c
  ELSE IF existsNearDuplicate(c.options, "title", Head(proposed).title)
    THEN mergeNewOptions(c, Tail(proposed))
    ELSE LET id == newId(c)
         IN mergeNewOptions(
              [c EXCEPT !.options = Append(@, [id |-> id, title |-> Head(proposed).title,
                                               status |-> "considering"]),
                        !.active_option_id = IF @ = undefined THEN id ELSE @],
              Tail(proposed))

RECURSIVE mergeStatusChanges(_, _)
mergeStatusChanges(c, changes) ==
  IF Len(changes) = 0 THEN c
  ELSE LET change == Head(changes)
           k == FindIndex(c.options,
                          LAMBDA item : <<item.title, change.option_title>> \in nearDuplicates)
       IN IF k = 0 THEN mergeStatusChanges(c, Tail(changes))
          ELSE mergeStatusChanges(
                 [c EXCEPT !.options[k].status = change.new_status,
                           !.active_option_id =
                             IF change.new_status = "selected" THEN c.options[k].id ELSE @],
                 Tail(changes))

RECURSIVE mergeNewDecisions(_, _)
mergeNewDecisions(c, proposed) ==
  IF Len(proposed) = 0 THEN c
  ELSE IF existsNearDuplicate(c.decisions, "title", Head(proposed).title)
    THEN mergeNewDecisions(c, Tail(proposed))
    ELSE mergeNewDecisions(
           [c EXCEPT !.decisions = Append(@, [id |-> newId(c),
                                              title |-> Head(proposed).title,
                                              option_id |-> c.active_option_id])],
           Tail(proposed))

RECURSIVE mergeNewConstraints(_, _)
mergeNewConstraints(c, proposed) ==
  IF Len(proposed) = 0 THEN c
  ELSE IF existsNearDuplicate(c.constraints, "description", Head(proposed).description)
    THEN mergeNewConstraints(c, Tail(proposed))
    ELSE mergeNewConstraints(
           [c EXCEPT !.constraints = Append(@, [id |-> newId(c),
                                                description |-> Head(proposed).description,
                                                decision_id |-> targetDecisionId(c)])],
           Tail(proposed))

RECURSIVE mergeNewQuestions(_, _)
mergeNewQuestions(c, proposed) ==
  IF Len(proposed) = 0 THEN c
  ELSE IF existsNearDuplicate(c.open_questions, "question", Head(proposed).question)
    THEN mergeNewQuestions(c, Tail(proposed))
    ELSE mergeNewQuestions(
           [c EXCEPT !.open_questions = Append(@, [id |-> newId(c),
                                                   question |-> Head(proposed).question,
                                                   status |-> "open",
                                                   decision_id |-> targetDecisionId(c)])],
           Tail(proposed))

RECURSIVE mergeResolvedQuestions(_, _)
mergeResolvedQuestions(c, resolved) ==
  IF Len(resolved) = 0 THEN c
  ELSE LET k == FindIndex(c.open_questions,
                          LAMBDA item : <<item.question, Head(resolved).question>> \in nearDuplicates)
       IN mergeResolvedQuestions(
            IF k = 0 THEN c ELSE [c EXCEPT !.open_questions[k].status = "resolved"],
            Tail(resolved))

\* the for...of loops of applyExtract, in the order of the code
MergeSteps ==
  <<"new_options", "option_status_changes", "new_decisions",
    "new_constraints", "new_open_questions", "resolved_questions">>

mergeStep(c, extract, step) ==
  CASE step = "new_options" -> mergeNewOptions(c, extract.new_options)
    [] step = "option_status_changes" -> mergeStatusChanges(c, extract.option_status_changes)
    [] step = "new_decisions" -> mergeNewDecisions(c, extract.new_decisions)
    [] step = "new_constraints" -> mergeNewConstraints(c, extract.new_constraints)
    [] step = "new_open_questions" -> mergeNewQuestions(c, extract.new_open_questions)
    [] step = "resolved_questions" -> mergeResolvedQuestions(c, extract.resolved_questions)

\* the updater's working copy after the loops from step k on: the canvas it
\* built and whether a loop threw on the way
RECURSIVE mergeFrom(_, _, _)
mergeFrom(c, extract, k) ==
  IF k > Len(MergeSteps)
    THEN [canvas |-> [c EXCEPT !.active_option_id =
                        ensureActiveOption(c.active_option_id, c.options)],
          threw |-> FALSE]
  ELSE IF MergeSteps[k] \in extract.notIterable
    THEN [canvas |-> c, threw |-> TRUE]
    ELSE mergeFrom(mergeStep(c, extract, MergeSteps[k]), extract, k + 1)

applyExtractDraft(c, extract) ==
  mergeFrom(IF Len(trim(extract.problem_statement_update)) > 0
              THEN [c EXCEPT !.problem_statement = trim(extract.problem_statement_update)]
              ELSE c,
            extract, 1)

\* what set() commits: the updater's result, or, when the updater threw,
\* nothing (the exception leaves set() before the state is replaced)
\* applyExtract as it would be if the steps wrote to the store one by one
applyExtractStepwise(c, extract) ==
  applyExtractDraft(c, extract).canvas

applyExtract(c, extract) ==
  LET draft == applyExtractDraft(c, extract)
  IN IF draft.threw THEN c ELSE draft.canvas

(***************************************************************************)
(* The extract block of a reply (lib/extract.ts).                          *)
(***************************************************************************)
startTag == <<"<","d","e","s","i","g","n","_","e","x","t","r","a","c","t",">">>

\* where /<design_extract>/i first matches in raw, 0 when it does not
indexOfStartTag(raw) ==
  LET matches == {k \in 1..Len(raw) :
                    /\ k + Len(startTag) - 1 <= Len(raw)
                    /\ toLowerCase(SubSeq(raw, k, k + Len(startTag) - 1)) = startTag}
  IN IF matches = {} THEN 0 ELSE CHOOSE k \in matches : \A m \in matches : k <= m

\* raw.replace(/<design_extract>[\s\S]*$/i, "") without the trimEnd
stripExtractTailUntrimmed(raw) ==
  LET k == indexOfStartTag(raw)
  IN IF k = 0 THEN raw ELSE SubSeq(raw, 1, k - 1)

stripExtractTail(raw) ==
  LET k == indexOfStartTag(raw)
  IN trimEnd(IF k = 0 THEN raw ELSE SubSeq(raw, 1, k - 1))

endTag == <<"<","/","d","e","s","i","g","n","_","e","x","t","r","a","c","t",">">>

\* where u first matches in t at or after from, letter case ignored; 0 when
\* it does not
indexOfFrom(t, u, from) ==
  LET matches == {k \in from..(Len(t) - Len(u) + 1) :
                    toLowerCase(SubSeq(t, k, k + Len(u) - 1)) = u}
  IN IF matches = {} THEN 0 ELSE CHOOSE k \in matches : \A m \in matches : k <= m

\* null, and the empty string with it: no text of the model that may be
\* null is ever the empty string
null == <<>>

tOops == <<"{","o","o","p","s","}">>
tEmptyObject == <<"{","}">>
tOptionKafka == <<"{","\"","n","e","w","_","o","p","t","i","o","n","s","\"",":","[","{","\"","t","i","t","l","e","\"",":","\"","K","a","f","k","a","\"","}","]","}">>
tDecisionRedis == <<"{","\"","p","r","o","b","l","e","m","_","s","t","a","t","e","m","e","n","t","_","u","p","d","a","t","e","\"",":","\"","K","a","f","k","a","\"",",","\"","n","e","w","_","d","e","c","i","s","i","o","n","s","\"",":","[","{","\"","t","i","t","l","e","\"",":","\"","R","e","d","i","s","\"","}","]","}">>
tConstraintsNull == <<"{","\"","n","e","w","_","o","p","t","i","o","n","s","\"",":","[","{","\"","t","i","t","l","e","\"",":","\"","K","a","f","k","a","\"","}","]",",","\"","n","e","w","_","c","o","n","s","t","r","a","i","n","t","s","\"",":","n","u","l","l","}">>
tAllEmpty == <<"{","\"","p","r","o","b","l","e","m","_","s","t","a","t","e","m","e","n","t","_","u","p","d","a","t","e","\"",":","n","u","l","l",",","\"","n","e","w","_","o","p","t","i","o","n","s","\"",":","[","]",",","\"","o","p","t","i","o","n","_","s","t","a","t","u","s","_","c","h","a","n","g","e","s","\"",":","[","]",",","\"","n","e","w","_","d","e","c","i","s","i","o","n","s","\"",":","[","]",",","\"","n","e","w","_","c","o","n","s","t","r","a","i","n","t","s","\"",":","[","]",",","\"","n","e","w","_","o","p","e","n","_","q","u","e","s","t","i","o","n","s","\"",":","[","]",",","\"","r","e","s","o","l","v","e","d","_","q","u","e","s","t","i","o","n","s","\"",":","[","]","}">>
tNull == <<"n","u","l","l">>
tSyntaxError == <<"U","n","e","x","p","e","c","t","e","d"," ","t","o","k","e","n"," ","o"," ","i","n"," ","J","S","O","N"," ","a","t"," ","p","o","s","i","t","i","o","n"," ","1">>

\* the texts JSON.parse reads in the model, and the values it returns; an
\* object is the record of the fields it gives, null has none; a field that
\* is given null where an array is due is listed in notIterable
JSONValues ==
  <<[text |-> tEmptyObject, value |-> <<>>],
    [text |-> tConstraintsNull,
     value |-> [new_options |-> <<[title |-> tKafka]>>,
                notIterable |-> {"new_constraints"}]],
    [text |-> tNull, value |-> <<>>],
    [text |-> tOptionKafka, value |-> [new_options |-> <<[title |-> tKafka]>>]],
    [text |-> tDecisionRedis,
     value |-> [problem_statement_update |-> tKafka,
                new_decisions |-> <<[title |-> tRedis]>>]],
    [text |-> tAllEmpty,
     value |-> [problem_statement_update |-> null, new_options |-> <<>>,
                option_status_changes |-> <<>>, new_decisions |-> <<>>,
                new_constraints |-> <<>>, new_open_questions |-> <<>>,
                resolved_questions |-> <<>>]]>>

\* JSON.parse: the value of a text that is JSON, a SyntaxError otherwise
JSONparse(text) ==
  IF \E i \in DOMAIN JSONValues : JSONValues[i].text = text
    THEN [threw |-> FALSE,
          value |-> JSONValues[CHOOSE i \in DOMAIN JSONValues :
                                 JSONValues[i].text = text].value]
    ELSE [threw |-> TRUE, message |-> tSyntaxError]

\* {...parsed}: the parsed value alone
spreadWithoutDefaults(defaults, parsed) ==
  parsed

\* {...defaults, ...parsed}
spread(defaults, parsed) ==
  [f \in DOMAIN defaults \cup DOMAIN parsed |->
     IF f \in DOMAIN parsed THEN parsed[f] ELSE defaults[f]]

\* the match of /<design_extract>\s*([\s\S]*?)\s*<\/design_extract>/i in raw:
\* where it starts, where it ends, and its group
matchExtract(raw) ==
  LET start == indexOfStartTag(raw)
      end == IF start = 0 THEN 0
             ELSE indexOfFrom(raw, endTag, start + Len(startTag))
  IN IF end = 0 THEN [found |-> FALSE]
     ELSE [found |-> TRUE, first |-> start, last |-> end + Len(endTag) - 1,
           group |-> trim(SubSeq(raw, start + Len(startTag), end - 1))]

\* parseAssistantExtract without its try: what JSON.parse throws leaves it
parseAssistantExtractUncaught(raw) ==
  LET match == matchExtract(raw)
  IN IF ~match.found
       THEN [text |-> trim(raw), extract |-> createEmptyExtract,
             parse_error |-> null, raw_extract |-> <<>>]
       ELSE LET visibleText == trim(SubSeq(raw, 1, match.first - 1)
                                      \o SubSeq(raw, match.last + 1, Len(raw)))
                parsed == JSONparse(match.group)
            IN IF parsed.threw
                 THEN parsed
                 ELSE [text |-> visibleText,
                       extract |-> spread(createEmptyExtract, parsed.value),
                       parse_error |-> null, raw_extract |-> match.group]

parseAssistantExtract(raw) ==
  LET match == matchExtract(raw)
  IN IF ~match.found
       THEN [text |-> trim(raw), extract |-> createEmptyExtract,
             parse_error |-> null, raw_extract |-> <<>>]
       ELSE LET visibleText == trim(SubSeq(raw, 1, match.first - 1)
                                      \o SubSeq(raw, match.last + 1, Len(raw)))
                parsed == JSONparse(match.group)
            IN IF parsed.threw
                 THEN [text |-> visibleText, extract |-> createEmptyExtract,
                       parse_error |-> parsed.message, raw_extract |-> match.group]
                 ELSE [text |-> visibleText,
                       extract |-> spread(createEmptyExtract, parsed.value),
                       parse_error |-> null, raw_extract |-> match.group]

(***************************************************************************)
(* The response body of a streamed reply (services/anthropic.ts): lines of *)
(* server-sent events, delivered in chunks.                                *)
(***************************************************************************)
eventHead == <<"{","\"","t","y","p","e","\"",":","\"","c","o","n","t","e","n","t","_","b","l","o","c","k","_","d","e","l","t","a","\"",",","\"","d","e","l","t","a","\"",":","{","\"","t","y","p","e","\"",":","\"","t","e","x","t","_","d","e","l","t","a","\"",",","\"","t","e","x","t","\"",":","\"">>
eventTail == <<"\"","}","}">>
tData == <<"d","a","t","a",":">>
tDone == <<"[","D","O","N","E","]">>
tHi == <<"H","i">>
tBang == <<"!">>
newline == <<"\n">>

\* JSON.stringify of a content_block_delta event with a text_delta of the
\* text, for a text that needs no escaping
stringifyTextDelta(text) == eventHead \o text \o eventTail

startsWith(t, u) == Len(t) >= Len(u) /\ SubSeq(t, 1, Len(u)) = u
endsWith(t, u) == Len(t) >= Len(u) /\ SubSeq(t, Len(t) - Len(u) + 1, Len(t)) = u

\* textOfDelta with a payload that is no text_delta taken for text
textOfDeltaUnchecked(payloadText) ==
  IF /\ Len(payloadText) >= Len(eventHead) + Len(eventTail)
     /\ startsWith(payloadText, eventHead)
     /\ endsWith(payloadText, eventTail)
    THEN SubSeq(payloadText, Len(eventHead) + 1, Len(payloadText) - Len(eventTail))
    ELSE payloadText

\* the text of the text_delta the payload holds; the empty text when
\* JSON.parse throws or the event is no text_delta
textOfDelta(payloadText) ==
  IF /\ Len(payloadText) >= Len(eventHead) + Len(eventTail)
     /\ startsWith(payloadText, eventHead)
     /\ endsWith(payloadText, eventTail)
     /\ \A k \in (Len(eventHead) + 1)..(Len(payloadText) - Len(eventTail)) :
          payloadText[k] \notin {"\"", "\\", "\n"}
    THEN SubSeq(payloadText, Len(eventHead) + 1, Len(payloadText) - Len(eventTail))
    ELSE <<>>

\* String.prototype.split("\n")
splitLines(t) ==
  LET breaks == {k \in DOMAIN t : t[k] = "\n"}
      n == Cardinality(breaks)
      break(i) == IF i = 0 THEN 0
                  ELSE IF i = n + 1 THEN Len(t) + 1
                  ELSE CHOOSE k \in breaks : Cardinality({m \in breaks : m < k}) = i - 1
  IN [i \in 1..(n + 1) |-> SubSeq(t, break(i - 1) + 1, break(i) - 1)]

\* the text one line of the body adds to rawAssistantText
textOfLine(line) ==
  IF ~startsWith(line, tData) THEN <<>>
  ELSE LET payloadText == trim(SubSeq(line, Len(tData) + 1, Len(line)))
       IN IF payloadText = <<>> \/ payloadText = tDone THEN <<>>
          ELSE textOfDelta(payloadText)

\* the for...of over the lines: the text they add, in order
RECURSIVE textOfLines(_)
textOfLines(lines) ==
  IF Len(lines) = 0 THEN <<>>
  ELSE textOfLine(Head(lines)) \o textOfLines(Tail(lines))

\* the body that carries the events, each a data line and a blank line
RECURSIVE bodyOf(_, _)
bodyOf(texts, ending) ==
  IF Len(texts) = 0 THEN <<>>
  ELSE tData \o <<" ">> \o stringifyTextDelta(Head(texts))
         \o (IF Len(texts) = 1 THEN ending ELSE newline \o newline)
         \o bodyOf(Tail(texts), ending)

(***************************************************************************)
(* The space beside its canvas (store/useAppStore.ts).                     *)
(***************************************************************************)
FailureLogCap == 30
UsageCap == 50
ExcerptSlice == 500

\* Array.prototype.slice(0, n) and String.prototype.slice(0, n)
slice(s, n) == SubSeq(s, 1, Min2(n, Len(s)))

createNewSpace ==
  [conversation |-> <<>>, usage_history |-> <<>>,
   extraction_failures |-> 0, extraction_failure_log |-> <<>>]

addMessage(sp, message) ==
  [sp EXCEPT !.conversation = Append(@, message)]

updateMessageContent(sp, messageId, content) ==
  [sp EXCEPT !.conversation =
     [i \in DOMAIN @ |-> IF @[i].id = messageId
                           THEN [@[i] EXCEPT !.content = content]
                           ELSE @[i]]]

\* the conversation without the message; the scrub of source_messages is
\* on fields the canvas of the model does not carry
removeMessage(sp, messageId) ==
  [sp EXCEPT !.conversation = SelectSeq(@, LAMBDA message : message.id # messageId)]

recordUsage(sp, usage) ==
  [sp EXCEPT !.usage_history = slice(<<usage>> \o @, UsageCap)]

\* the log with the newest failure dropped instead of the oldest
recordExtractionFailureKeepingOldest(sp, at, messageId, telemetry) ==
  IF telemetry.parse_error = null THEN sp
  ELSE [sp EXCEPT
          !.extraction_failures = @ + 1,
          !.extraction_failure_log =
            slice(@ \o <<[at |-> at, message_id |-> messageId,
                         reason |-> telemetry.parse_error,
                         raw_excerpt |-> slice(telemetry.raw_extract, ExcerptSlice)]>>,
                  FailureLogCap)]

\* applyExtract: if (telemetry?.parse_error) { ... }
recordExtractionFailure(sp, at, messageId, telemetry) ==
  IF telemetry.parse_error = null THEN sp
  ELSE [sp EXCEPT
          !.extraction_failures = @ + 1,
          !.extraction_failure_log =
            slice(<<[at |-> at, message_id |-> messageId,
                     reason |-> telemetry.parse_error,
                     raw_excerpt |-> slice(telemetry.raw_extract, ExcerptSlice)]>> \o @,
                  FailureLogCap)]

(***************************************************************************)
(* applyExtract on the whole space (store/useAppStore.ts), with the texts  *)
(* the entities carry beside their titles, their source_messages, and the  *)
(* extracted_elements of the message.  The working copy is the cloned      *)
(* canvas and refs.                                                        *)
(***************************************************************************)
\* what the update loops would write if they replaced the text
replaced(previous, text) ==
  trim(text)

\* `${previous}\n${text.trim()}`, or text.trim() when previous is empty
appended(previous, text) ==
  IF Len(previous) > 0 THEN previous \o <<"\n">> \o trim(text) ELSE trim(text)

RECURSIVE loopNewOptions(_, _, _)
loopNewOptions(d, messageId, proposed) ==
  IF Len(proposed) = 0 THEN d
  ELSE IF existsNearDuplicate(d.canvas.options, "title", Head(proposed).title)
    THEN loopNewOptions(d, messageId, Tail(proposed))
    ELSE LET id == newId(d.canvas)
         IN loopNewOptions(
              [canvas |->
                 [d.canvas EXCEPT
                    !.options = Append(@, [id |-> id, title |-> Head(proposed).title,
                                           description |-> Head(proposed).description,
                                           status |-> "considering",
                                           source_messages |-> <<messageId>>]),
                    !.active_option_id = IF @ = undefined THEN id ELSE @],
               refs |-> Append(d.refs, [type |-> "option", id |-> id])],
              messageId, Tail(proposed))

RECURSIVE loopUpdateOptions(_, _, _)
loopUpdateOptions(d, messageId, updates) ==
  IF Len(updates) = 0 THEN d
  ELSE LET upd == Head(updates)
           k == FindIndex(d.canvas.options, LAMBDA item : item.id = upd.id)
       IN loopUpdateOptions(
            IF k # 0 /\ Len(trim(upd.description)) > 0
              THEN [d EXCEPT !.canvas.options[k].description = appended(@, upd.description)]
              ELSE d,
            messageId, Tail(updates))

\* the reason of a change is kept as rejection_reason, which the model does
\* not carry
RECURSIVE loopStatusChanges(_, _, _)
loopStatusChanges(d, messageId, changes) ==
  IF Len(changes) = 0 THEN d
  ELSE LET change == Head(changes)
           k == FindIndex(d.canvas.options,
                          LAMBDA item : <<item.title, change.option_title>> \in nearDuplicates)
       IN loopStatusChanges(
            IF k = 0 THEN d
            ELSE [d EXCEPT
                    !.canvas.options[k].status = change.new_status,
                    !.canvas.options[k].source_messages = Append(@, messageId),
                    !.canvas.active_option_id =
                      IF change.new_status = "selected" THEN d.canvas.options[k].id ELSE @],
            messageId, Tail(changes))

RECURSIVE loopNewDecisions(_, _, _)
loopNewDecisions(d, messageId, proposed) ==
  IF Len(proposed) = 0 THEN d
  ELSE IF existsNearDuplicate(d.canvas.decisions, "title", Head(proposed).title)
    THEN loopNewDecisions(d, messageId, Tail(proposed))
    ELSE LET id == newId(d.canvas)
         IN loopNewDecisions(
              [canvas |->
                 [d.canvas EXCEPT
                    !.decisions = Append(@, [id |-> id, title |-> Head(proposed).title,
                                             reasoning |-> Head(proposed).reasoning,
                                             trade_offs |-> Head(proposed).trade_offs,
                                             option_id |-> d.canvas.active_option_id,
                                             source_messages |-> <<messageId>>])],
               refs |-> Append(d.refs, [type |-> "decision", id |-> id])],
              messageId, Tail(proposed))

RECURSIVE loopUpdateDecisions(_, _, _)
loopUpdateDecisions(d, messageId, updates) ==
  IF Len(updates) = 0 THEN d
  ELSE LET upd == Head(updates)
           k == FindIndex(d.canvas.decisions, LAMBDA item : item.id = upd.id)
       IN loopUpdateDecisions(
            IF k = 0 THEN d
            ELSE [d EXCEPT
                    !.canvas.decisions[k].reasoning =
                      IF Len(trim(upd.reasoning)) > 0 THEN appended(@, upd.reasoning) ELSE @,
                    !.canvas.decisions[k].trade_offs =
                      IF Len(trim(upd.trade_offs)) > 0 THEN appended(@, upd.trade_offs) ELSE @],
            messageId, Tail(updates))

RECURSIVE loopNewConstraints(_, _, _)
loopNewConstraints(d, messageId, proposed) ==
  IF Len(proposed) = 0 THEN d
  ELSE IF existsNearDuplicate(d.canvas.constraints, "description", Head(proposed).description)
    THEN loopNewConstraints(d, messageId, Tail(proposed))
    ELSE LET id == newId(d.canvas)
         IN loopNewConstraints(
              [canvas |->
                 [d.canvas EXCEPT
                    !.constraints = Append(@, [id |-> id,
                                               description |-> Head(proposed).description,
                                               decision_id |-> targetDecisionId(d.canvas),
                                               source_messages |-> <<messageId>>])],
               refs |-> Append(d.refs, [type |-> "constraint", id |-> id])],
              messageId, Tail(proposed))

RECURSIVE loopNewQuestions(_, _, _)
loopNewQuestions(d, messageId, proposed) ==
  IF Len(proposed) = 0 THEN d
  ELSE IF existsNearDuplicate(d.canvas.open_questions, "question", Head(proposed).question)
    THEN loopNewQuestions(d, messageId, Tail(proposed))
    ELSE LET id == newId(d.canvas)
         IN loopNewQuestions(
              [canvas |->
                 [d.canvas EXCEPT
                    !.open_questions = Append(@, [id |-> id,
                                                  question |-> Head(proposed).question,
                                                  status |-> "open",
                                                  decision_id |-> targetDecisionId(d.canvas)])],
               refs |-> Append(d.refs, [type |-> "open_question", id |-> id])],
              messageId, Tail(proposed))

RECURSIVE loopResolvedQuestions(_, _, _)
loopResolvedQuestions(d, messageId, resolved) ==
  IF Len(resolved) = 0 THEN d
  ELSE LET k == FindIndex(d.canvas.open_questions,
                          LAMBDA item : <<item.question, Head(resolved).question>> \in nearDuplicates)
       IN loopResolvedQuestions(
            IF k = 0 THEN d ELSE [d EXCEPT !.canvas.open_questions[k].status = "resolved"],
            messageId, Tail(resolved))

\* the loops as they would run with the decisions created first
loopOrderDecisionsFirst ==
  <<"new_decisions", "new_constraints", "new_open_questions", "resolved_questions",
    "new_options", "update_options", "option_status_changes", "update_decisions">>

\* the for...of loops of applyExtract, in the order of the code
loopOrder ==
  <<"new_options", "update_options", "option_status_changes", "new_decisions",
    "update_decisions", "new_constraints", "new_open_questions", "resolved_questions">>

loop(d, messageId, extract, step) ==
  CASE step = "new_options" -> loopNewOptions(d, messageId, extract.new_options)
    [] step = "update_options" -> loopUpdateOptions(d, messageId, extract.update_options)
    [] step = "option_status_changes" ->
         loopStatusChanges(d, messageId, extract.option_status_changes)
    [] step = "new_decisions" -> loopNewDecisions(d, messageId, extract.new_decisions)
    [] step = "update_decisions" -> loopUpdateDecisions(d, messageId, extract.update_decisions)
    [] step = "new_constraints" -> loopNewConstraints(d, messageId, extract.new_constraints)
    [] step = "new_open_questions" ->
         loopNewQuestions(d, messageId, extract.new_open_questions)
    [] step = "resolved_questions" ->
         loopResolvedQuestions(d, messageId, extract.resolved_questions)

RECURSIVE loopsFrom(_, _, _, _)
loopsFrom(d, messageId, extract, k) ==
  IF k > Len(loopOrder) THEN d
  ELSE loopsFrom(loop(d, messageId, extract, loopOrder[k]), messageId, extract, k + 1)

\* conversation.map that would give refs to every message
tagEveryMessage(conversation, messageId, refs) ==
  [i \in DOMAIN conversation |-> [conversation[i] EXCEPT !.extracted_elements = refs]]

\* conversation.map((message) => message.id === messageId ? {...message,
\* extracted_elements: refs} : message)
tagMessage(conversation, messageId, refs) ==
  [i \in DOMAIN conversation |->
     IF conversation[i].id = messageId
       THEN [conversation[i] EXCEPT !.extracted_elements = refs]
       ELSE conversation[i]]

\* applyExtract's updater on a space whose design_canvas is sp.design_canvas
applyExtractToSpace(sp, messageId, incomingExtract, telemetry, at) ==
  LET extract == spread(createEmptyExtract, incomingExtract)
      cloned == sp.design_canvas
      d == loopsFrom(
             [canvas |-> IF Len(trim(extract.problem_statement_update)) > 0
                           THEN [cloned EXCEPT !.problem_statement =
                                   trim(extract.problem_statement_update)]
                           ELSE cloned,
              refs |-> <<>>],
             messageId, extract, 1)
      nextSpace ==
        [sp EXCEPT
           !.design_canvas =
             [d.canvas EXCEPT !.active_option_id =
                ensureActiveOption(d.canvas.active_option_id, d.canvas.options)],
           !.conversation = tagMessage(@, messageId, d.refs)]
  IN recordExtractionFailure(nextSpace, at, messageId, telemetry)

(***************************************************************************)
(* useConversation (hooks/useConversation.ts).                             *)
(***************************************************************************)
tRequestFailed == <<"[","R","e","q","u","e","s","t"," ","f","a","i","l","e","d","]"," ">>
tApiError == <<"C","l","a","u","d","e"," ","A","P","I"," ","e","r","r","o","r"," ","(","5","0","0",")",":"," ","o","v","e","r","l","o","a","d","e","d">>
tNotIterable == <<"e","x","t","r","a","c","t",".","n","e","w","_","c","o","n","s","t","r","a","i","n","t","s"," ","i","s"," ","n","o","t"," ","i","t","e","r","a","b","l","e">>
tRegenerateError == <<"R","e","g","e","n","e","r","a","t","e"," ","w","o","r","k","s"," ","w","h","e","n"," ","t","h","e"," ","l","a","t","e","s","t"," ","m","e","s","s","a","g","e"," ","i","s"," ","f","r","o","m"," ","C","l","a","u","d","e",".">>

\* no FailedRequest
NoRequest == [conversation |-> <<>>, assistantMessageId |-> undefined, spaceId |-> undefined]

useConversation ==
  [isSending |-> FALSE, error |-> null, lastFailedRequest |-> NoRequest,
   inFlight |-> <<>>, made |-> 0,
   step |-> [op |-> "useConversation", messageId |-> undefined,
             canvas |-> createEmptyCanvas, space |-> createNewSpace,
             request |-> NoRequest, canvasSnapshot |-> createEmptyCanvas]]

\* the catch block telling the store, as it would be if it recorded the
\* usage of the failed request
failedRequestRecorded(sp, messageId, message) ==
  recordUsage(updateMessageContent(sp, messageId, tRequestFailed \o message),
              [estimated |-> TRUE])

\* the catch block of runConversationRequest telling the store
failedRequest(sp, messageId, message) ==
  updateMessageContent(sp, messageId, tRequestFailed \o message)

(***************************************************************************)
(* Export and import (store/useAppStore.ts).  A document is the value      *)
(* JSON.parse reads: an object is the record of the fields it has, and a   *)
(* field that holds something else where an array is due is listed in      *)
(* notArrays.                                                              *)
(***************************************************************************)
\* the value of a field, undefined when the object has no such field
get(object, field) ==
  IF field \in DOMAIN object THEN object[field] ELSE undefined

\* Array.isArray(object[field])
isArray(object, field) ==
  /\ field \in DOMAIN object
  /\ ("notArrays" \in DOMAIN object => field \notin object.notArrays)

\* JSON.stringify then JSON.parse of an object: a field that is undefined
\* is not written, so the object read has no such field
withoutUndefined(object, optional) ==
  [f \in {g \in DOMAIN object : g \in optional => object[g] # undefined} |-> object[f]]

withoutUndefinedEach(items, optional) ==
  [i \in DOMAIN items |-> withoutUndefined(items[i], optional)]

\* a canvas as JSON.stringify writes it and JSON.parse reads it
canvasDocument(c) ==
  withoutUndefined(
    [c EXCEPT !.decisions = withoutUndefinedEach(@, {"option_id"}),
              !.constraints = withoutUndefinedEach(@, {"decision_id"}),
              !.open_questions = withoutUndefinedEach(@, {"decision_id"}),
              !.references = withoutUndefinedEach(@, {"decision_id"})],
    {"active_option_id"})

\* the id of the one space of the model
theSpaceId == 1

\* a space as JSON.stringify writes it and JSON.parse reads it
spaceDocument(c, sp) ==
  [id |-> theSpaceId,
   design_canvas |-> canvasDocument(c),
   conversation |-> sp.conversation,
   usage_history |-> sp.usage_history,
   extraction_failures |-> sp.extraction_failures,
   extraction_failure_log |-> sp.extraction_failure_log]

\* JSON.parse of what exportSpacesPayload returns for the spaces
exportSpacesPayload(spaces, activeSpaceId, at) ==
  [version |-> 1, exported_at |-> at, activeSpaceId |-> activeSpaceId,
   spaces |-> spaces]

\* one space of importSpacesPayload's safeSpaces
safeSpace(spaceRead) ==
  LET design_canvas == spaceRead.design_canvas
  IN spread(spaceRead,
       [design_canvas |->
          spread(design_canvas,
            [decisions |-> IF isArray(design_canvas, "decisions")
                             THEN design_canvas.decisions ELSE <<>>,
             active_option_id |->
               ensureActiveOption(get(design_canvas, "active_option_id"),
                                  IF isArray(design_canvas, "options")
                                    THEN design_canvas.options ELSE <<>>)]),
        usage_history |-> IF isArray(spaceRead, "usage_history")
                            THEN spaceRead.usage_history ELSE <<>>,
        extraction_failures |-> IF "extraction_failures" \in DOMAIN spaceRead
                                  THEN spaceRead.extraction_failures ELSE 0,
        extraction_failure_log |-> IF isArray(spaceRead, "extraction_failure_log")
                                     THEN spaceRead.extraction_failure_log ELSE <<>>])

\* importSpacesPayload of a text that is JSON, given as the document; it
\* throws the Error on the spaces, and a TypeError on reading a field of a
\* design_canvas that is not there
importSpacesPayload(document) ==
  IF ~isArray(document, "spaces") \/ Len(get(document, "spaces")) = 0
    THEN [threw |-> TRUE, spaces |-> <<>>]
  ELSE IF \E i \in DOMAIN document.spaces : "design_canvas" \notin DOMAIN document.spaces[i]
    THEN [threw |-> TRUE, spaces |-> <<>>]
  ELSE [threw |-> FALSE,
        spaces |-> [i \in DOMAIN document.spaces |-> safeSpace(document.spaces[i])],
        activeSpaceId |-> get(document, "activeSpaceId")]

\* replaceSpaces: the store's spaces and activeSpaceId after it; fresh is
\* what createNewSpace() returns
replaceSpaces(spaces, nextActiveSpaceId, fresh) ==
  LET safeSpaces == IF Len(spaces) > 0 THEN spaces ELSE <<fresh>>
      activeFromInput ==
        /\ nextActiveSpaceId # undefined
        /\ \E i \in DOMAIN safeSpaces : get(safeSpaces[i], "id") = nextActiveSpaceId
  IN [spaces |-> safeSpaces,
      activeSpaceId |-> IF activeFromInput THEN nextActiveSpaceId
                        ELSE get(safeSpaces[1], "id")]

\* the reader.onload of onImportFileChange on a text that is JSON: the
\* store after it, which is the store before it when the import threw
onImportFileChange(stored, document) ==
  LET payload == importSpacesPayload(document)
  IN IF payload.threw THEN stored
     ELSE replaceSpaces(payload.spaces, payload.activeSpaceId,
                        spaceDocument(createEmptyCanvas, createNewSpace))

(***************************************************************************)
(* The store's list of spaces (store/useAppStore.ts): a space here is its  *)
(* id, its title, updated_at and its canvas.                               *)
(***************************************************************************)
tUntitledDesign == <<"U","n","t","i","t","l","e","d"," ","D","e","s","i","g","n">>
tSampleTitle == <<"S","a","m","p","l","e",":"," ","R","e","a","l","-","t","i","m","e"," ","N","o","t","i","f","i","c","a","t","i","o","n","s">>

\* createNewSpace(title) with the id newId() returned and the time nowIso()
\* read
createNewSpaceTitled(id, title, timestamp) ==
  [id |-> id, title |-> title, updated_at |-> timestamp,
   design_canvas |-> createEmptyCanvas]

\* sampleSpace(): a new space with the sample's title and a canvas that is
\* not empty
sampleSpace(id, timestamp) ==
  [createNewSpaceTitled(id, tSampleTitle, timestamp) EXCEPT
     !.design_canvas = addOption(createEmptyCanvas)]

\* an id newId() may return: one that no space of the list has
newSpaceId(spaces) ==
  CHOOSE i \in 1..(Len(spaces) + 1) :
    /\ \A k \in DOMAIN spaces : spaces[k].id # i
    /\ \A j \in 1..(i - 1) : \E k \in DOMAIN spaces : spaces[k].id = j

touchSpace(sp, timestamp) ==
  [sp EXCEPT !.updated_at = timestamp]

\* the updaters the operations hand to updateSpace
updater(operation, draft) ==
  IF operation.name = "updateSpaceTitle" THEN [draft EXCEPT !.title = operation.text]
  ELSE IF operation.name = "setProblemStatement"
    THEN [draft EXCEPT !.design_canvas.problem_statement = operation.text]
  ELSE [draft EXCEPT !.design_canvas = addOption(@)]

\* updateSpace that touches the spaces it leaves alone as well
updateSpaceTouchingAll(spaces, spaceId, operation, timestamp) ==
  [i \in DOMAIN spaces |->
     touchSpace(IF spaces[i].id # spaceId THEN spaces[i]
                ELSE updater(operation, spaces[i]), timestamp)]

updateSpace(spaces, spaceId, operation, timestamp) ==
  [i \in DOMAIN spaces |->
     IF spaces[i].id # spaceId THEN spaces[i]
     ELSE touchSpace(updater(operation, spaces[i]), timestamp)]

createSpace(state, next) ==
  [spaces |-> <<next>> \o state.spaces, activeSpaceId |-> next.id]

createSampleSpace(state, sample) ==
  [spaces |-> <<sample>> \o state.spaces, activeSpaceId |-> sample.id]

\* deleteSpace that keeps activeSpaceId
deleteSpaceKeepingActive(state, id, fresh) ==
  [spaces |-> SelectSeq(state.spaces, LAMBDA sp : sp.id # id),
   activeSpaceId |-> state.activeSpaceId]

deleteSpace(state, id, fresh) ==
  LET remaining == SelectSeq(state.spaces, LAMBDA sp : sp.id # id)
  IN IF Len(remaining) = 0
       THEN [spaces |-> <<fresh>>, activeSpaceId |-> fresh.id]
       ELSE [spaces |-> remaining,
             activeSpaceId |-> IF state.activeSpaceId = id THEN remaining[1].id
                               ELSE state.activeSpaceId]

\* the store as created: spaces: [initial], activeSpaceId: initial.id
useAppStore ==
  [spaces |-> <<createNewSpaceTitled(theSpaceId, tUntitledDesign, 0)>>,
   activeSpaceId |-> theSpaceId,
   op |-> "create", id |-> undefined,
   pre |-> [spaces |-> <<>>, activeSpaceId |-> undefined]]

\* before anything is exported or picked
NoTransfer ==
  [phase |-> "idle", document |-> <<>>, imported |-> [threw |-> FALSE, spaces |-> <<>>],
   store |-> replaceSpaces(<<>>, undefined,
                           spaceDocument(createEmptyCanvas, createNewSpace))]

\* the new space with its canvas, before any applyExtract
NoMerge ==
  [space |-> [design_canvas |-> createEmptyCanvas, conversation |-> <<>>,
              usage_history |-> <<>>, extraction_failures |-> 0,
              extraction_failure_log |-> <<>>],
   pre |-> <<>>, op |-> "createNewSpace", messageId |-> "", extract |-> <<>>,
   applied |-> 0]

\* before isNearDuplicate is called
NoComparison ==
  [phase |-> "idle", a |-> <<>>, b |-> <<>>, result |-> FALSE]

\* before parseAssistantExtract is called
NoCall ==
  [phase |-> "idle", before |-> <<>>, open |-> <<>>, space |-> <<>>,
   interior |-> <<>>, closed |-> FALSE, after |-> <<>>, raw |-> <<>>,
   result |-> <<>>]

(***************************************************************************)
(* The store as a state machine: one space's canvas, and the operation     *)
(* that produced it.                                                       *)
(***************************************************************************)
VARIABLES
  canvas,   \* space.design_canvas
  last,     \* the last store operation: its name, its arguments, the canvas
            \* it was applied to, and whether its updater threw
  stream,   \* one streamConversation call: the reply the server sends, how
            \* much of it has arrived, and what onTextDelta was handed last
  wire,     \* one streamConversation call at the level of the response body:
            \* the body, how much of it reader.read() has delivered, the
            \* buffer, the text accumulated, and the result returned
  space,    \* the space beside its canvas: conversation, usage_history,
            \* extraction_failures, extraction_failure_log
  now,      \* the clock nowIso() reads
  hook,     \* useConversation: isSending, error, lastFailedRequest, the
            \* requests in flight, and the step taken last
  transfer, \* the document exported or picked last, and what
            \* importSpacesPayload made of it
  parser,   \* one parseAssistantExtract or stripExtractTail call: the parts
            \* its argument is put together from, the argument, and what the
            \* call returned
  compared, \* one isNearDuplicate call: its arguments and what it returned
  store,    \* the store's spaces and activeSpaceId, the operation that
            \* made them, and what they were before it
  merged    \* the space with all that applyExtract writes, the space the
            \* last applyExtract was applied to, and its arguments

vars == <<canvas, last, stream, wire, space, now, hook, transfer, parser, compared, merged, store>>

\* before streamConversation is called
NoWire ==
  [phase |-> "idle", ok |-> TRUE, body |-> <<>>, delivered |-> 0, chunks |-> 0,
   buffer |-> <<>>, rawAssistantText |-> <<>>, notified |-> 0, threw |-> FALSE,
   result |-> parseAssistantExtract(<<>>)]

NoStream ==
  [phase |-> "idle", reply |-> <<>>, rawAssistantText |-> <<>>,
   deltas |-> 0, called |-> FALSE, shown |-> <<>>, text |-> <<>>]

\* applyExtract called with no parse error to report
NoTelemetry == [parse_error |-> null, raw_extract |-> <<>>]

NoArgs ==
  [id |-> undefined, id2 |-> undefined, kind |-> "", text |-> <<>>,
   extract |-> createEmptyExtract, telemetry |-> NoTelemetry]

\* set -> the sequence of its members in increasing order
RECURSIVE Sorted(_)
Sorted(S) ==
  IF S = {} THEN <<>>
  ELSE LET m == CHOOSE x \in S : \A y \in S : x <= y
       IN <<m>> \o Sorted(S \ {m})

SeqIds(items) == [i \in DOMAIN items |-> items[i].id]

\* Ids are opaque UUIDs: the store compares them for equality and nothing
\* else.  A state is therefore kept up to a renaming of its ids: the
\* entities of the canvas are numbered in list order (options, decisions,
\* constraints, open questions, references), then the ids the canvas only
\* mentions, then the ids only the previous canvas or the arguments hold.
Numbering(next, pre, argIds) ==
  LET own == SeqIds(next.options) \o SeqIds(next.decisions) \o SeqIds(next.constraints)
               \o SeqIds(next.open_questions) \o SeqIds(next.references)
      mentioned == Sorted(UsedIds(next) \ Range(own))
      past == Sorted(((UsedIds(pre) \cup argIds) \ {undefined})
                       \ (UsedIds(next) \cup Range(own)))
  IN own \o mentioned \o past

Renamed(id, numbering) ==
  IF id = undefined THEN undefined
  ELSE CHOOSE k \in DOMAIN numbering : numbering[k] = id

RenamedLinks(items, field, numbering) ==
  [i \in DOMAIN items |->
     [items[i] EXCEPT !.id = Renamed(@, numbering),
                      ![field] = Renamed(@, numbering)]]

RenamedCanvas(c, numbering) ==
  [c EXCEPT
     !.active_option_id = Renamed(@, numbering),
     !.options = [i \in DOMAIN c.options |->
                    [c.options[i] EXCEPT !.id = Renamed(@, numbering)]],
     !.decisions = RenamedLinks(@, "option_id", numbering),
     !.constraints = RenamedLinks(@, "decision_id", numbering),
     !.open_questions = RenamedLinks(@, "decision_id", numbering),
     !.references = RenamedLinks(@, "decision_id", numbering)]

\* set() commits `next`; `last` remembers the operation
Committed(op, args, next, threw) ==
  LET numbering == Numbering(next, canvas, {args.id, args.id2})
  IN /\ canvas' = RenamedCanvas(next, numbering)
     /\ last' = [op |-> op, pre |-> RenamedCanvas(canvas, numbering),
                 id |-> Renamed(args.id, numbering),
                 id2 |-> Renamed(args.id2, numbering),
                 kind |-> args.kind, text |-> args.text, extract |-> args.extract,
                 threw |-> threw, telemetry |-> args.telemetry, space |-> space]

\* an operation on the canvas alone
Did(op, args, next, threw) ==
  /\ Committed(op, args, next, threw)
  /\ UNCHANGED <<stream, wire, space, now, hook, transfer, parser, compared, merged, store>>

\* the ids an operation may be handed: those of the canvas, and one that
\* names nothing (a stale id)
IdInputs == UsedIds(canvas) \cup {newId(canvas)}
OptionIdInputs == IdsOf(canvas.options) \cup {newId(canvas)}
DecisionIdInputs == IdsOf(canvas.decisions) \cup {newId(canvas)}
Directions == {"up", "down"}
ItemKinds == {"constraint", "question", "reference"}
DropTargets ==
  {"problem_statement", "options", "decisions", "constraints", "open_questions",
   "references"}
DropTexts == {tKafkaLog, tBlank}

ItemsOf(c, kind) ==
  IF kind = "constraint" THEN c.constraints
  ELSE IF kind = "question" THEN c.open_questions
  ELSE c.references

HasRoom == Entities(canvas) < MaxEntities

\* the extracts a reply may carry
TitleLists ==
  {<<[title |-> t]>> : t \in {tRedis, tKafka}}
    \cup {<<[title |-> tRedis], [title |-> tUseRedis]>>,
          <<[title |-> tUseRedis], [title |-> tKafka]>>}

AsDescriptions(l) == [i \in DOMAIN l |-> [description |-> l[i].title]]
AsQuestions(l) == [i \in DOMAIN l |-> [question |-> l[i].title]]

\* extracts that only change the status of options
StatusExtracts ==
  {[createEmptyExtract EXCEPT
      !.option_status_changes = <<[option_title |-> t, new_status |-> st]>>] :
     t \in {tNewOption, tRedis}, st \in {"selected", "rejected"}}

\* well-formed extracts
GoodExtracts ==
  {createEmptyExtract}
    \cup {[createEmptyExtract EXCEPT !.new_options = l] : l \in TitleLists}
    \cup {[createEmptyExtract EXCEPT !.new_decisions = l] : l \in TitleLists}
    \cup {[createEmptyExtract EXCEPT !.new_constraints = AsDescriptions(l)] :
            l \in TitleLists}
    \cup {[createEmptyExtract EXCEPT !.new_open_questions = AsQuestions(l)] :
            l \in TitleLists}
    \cup {[createEmptyExtract EXCEPT
             !.problem_statement_update = tKafka,
             !.new_options = <<[title |-> tRedis]>>,
             !.option_status_changes = <<[option_title |-> tUseRedis,
                                          new_status |-> "selected"]>>,
             !.new_decisions = <<[title |-> tRedis]>>,
             !.resolved_questions = <<[question |-> tRedis]>>]}

\* extracts with an array field that cannot be iterated
MalformedExtracts ==
  {[createEmptyExtract EXCEPT
      !.new_options = <<[title |-> tKafka]>>,
      !.new_decisions = <<[title |-> tKafka]>>,
      !.notIterable = {f}] : f \in {"new_options", "new_constraints"}}

Extracts == GoodExtracts \cup MalformedExtracts

Proposals(extract) ==
  Len(extract.new_options) + Len(extract.new_decisions)
    + Len(extract.new_constraints) + Len(extract.new_open_questions)

Init ==
  /\ canvas = createEmptyCanvas
  /\ last = [op |-> "createNewSpace", pre |-> createEmptyCanvas, id |-> undefined,
             id2 |-> undefined, kind |-> "", text |-> <<>>,
             extract |-> createEmptyExtract, threw |-> FALSE,
             telemetry |-> NoTelemetry, space |-> createNewSpace]
  /\ stream = NoStream
  /\ wire = NoWire
  /\ space = createNewSpace
  /\ now = 0
  /\ hook = useConversation
  /\ transfer = NoTransfer
  /\ merged = NoMerge
  /\ store = useAppStore
  /\ compared = NoComparison
  /\ parser = NoCall

SetActiveOption ==
  \E id \in OptionIdInputs :
    Did("setActiveOption", [NoArgs EXCEPT !.id = id], setActiveOption(canvas, id), FALSE)

ClearActiveOption ==
  Did("clearActiveOption", NoArgs, clearActiveOption(canvas), FALSE)

AddOption ==
  /\ HasRoom
  /\ Did("addOption", NoArgs, addOption(canvas), FALSE)

DeleteOption ==
  \E id \in OptionIdInputs :
    Did("deleteOption", [NoArgs EXCEPT !.id = id], deleteOption(canvas, id), FALSE)

CycleOptionStatus ==
  \E id \in IdsOf(canvas.options) :
    Did("cycleOptionStatus", [NoArgs EXCEPT !.id = id], cycleOptionStatus(canvas, id), FALSE)

RejectOption ==
  \E id \in IdsOf(canvas.options) :
    Did("rejectOption", [NoArgs EXCEPT !.id = id], rejectOption(canvas, id), FALSE)

AddDecision ==
  /\ HasRoom
  /\ Did("addDecision", NoArgs, addDecision(canvas), FALSE)

UpdateDecision ==
  \E id \in IdsOf(canvas.decisions), o \in OptionIdInputs \cup {undefined} :
    Did("updateDecision", [NoArgs EXCEPT !.id = id, !.id2 = o],
        updateDecision(canvas, id, o), FALSE)

DeleteDecision ==
  \E id \in IdsOf(canvas.decisions) :
    Did("deleteDecision", [NoArgs EXCEPT !.id = id], deleteDecision(canvas, id), FALSE)

\* reopenDecision builds an option from the decision, one entity for another
ReopenDecision ==
  \E id \in IdsOf(canvas.decisions) :
    Did("reopenDecision", [NoArgs EXCEPT !.id = id], reopenDecision(canvas, id), FALSE)

AddConstraint ==
  /\ HasRoom
  /\ Did("addConstraint", NoArgs, addConstraint(canvas), FALSE)

AddQuestion ==
  /\ HasRoom
  /\ Did("addQuestion", NoArgs, addQuestion(canvas), FALSE)

AddReference ==
  /\ HasRoom
  /\ Did("addReference", [NoArgs EXCEPT !.text = tKafka], addReference(canvas, tKafka), FALSE)

LinkToDecision ==
  \E kind \in ItemKinds :
    \E id \in IdsOf(ItemsOf(canvas, kind)), d \in DecisionIdInputs :
      Did("linkToDecision", [NoArgs EXCEPT !.kind = kind, !.id = id, !.id2 = d],
          linkToDecision(canvas, kind, id, d), FALSE)

ApplyStatusChanges ==
  \E extract \in StatusExtracts :
    Did("applyExtract", [NoArgs EXCEPT !.extract = extract],
        applyExtract(canvas, extract), applyExtractDraft(canvas, extract).threw)

ApplyExtract ==
  \E extract \in Extracts :
    /\ Entities(canvas) + Proposals(extract) <= MaxEntities
    /\ Did("applyExtract", [NoArgs EXCEPT !.extract = extract],
           applyExtract(canvas, extract), applyExtractDraft(canvas, extract).threw)

(***************************************************************************)
(* Links: the operations that create, link, re-parent and delete.          *)
(***************************************************************************)
NextLinks ==
  \/ AddOption
  \/ ClearActiveOption
  \/ AddDecision
  \/ AddConstraint
  \/ AddQuestion
  \/ AddReference
  \/ LinkToDecision
  \/ UpdateDecision
  \/ DeleteOption
  \/ DeleteDecision
  \/ ReopenDecision

SpecLinks == Init /\ [][NextLinks]_vars

(***************************************************************************)
(* The active option: the operations on options and their status.          *)
(***************************************************************************)
NextActive ==
  \/ AddOption
  \/ DeleteOption
  \/ SetActiveOption
  \/ ClearActiveOption
  \/ CycleOptionStatus
  \/ RejectOption
  \/ ApplyStatusChanges

SpecActive == Init /\ [][NextActive]_vars

(***************************************************************************)
(* The merge: applyExtract on the canvases it and the option operations    *)
(* build.                                                                  *)
(***************************************************************************)
NextMerge ==
  \/ ApplyExtract
  \/ ClearActiveOption
  \/ RejectOption
  \/ DeleteOption

SpecMerge == Init /\ [][NextMerge]_vars

(***************************************************************************)
(* Streaming: the text deltas of one reply, and what the progress callback *)
(* is handed after each.                                                   *)
(***************************************************************************)
\* replies the model's server sends
Replies ==
  {<<"H","i","<","d","e","s","i","g","n","_","e","x","t","r","a","c","t",">","{","}","<","/","d","e","s","i","g","n","_","e","x","t","r","a","c","t",">">>,
   <<"O","k"," ","\n","<","D","E","S","I","G","N","_","E","X","T","R","A","C","T",">","{">>,
   <<"a","<","b">>,
   <<"H","i">>,
   <<"<","d","e","s","i","g","n","_","e","x","t","r","a","c","t",">","{","}","<","/","d","e","s","i","g","n","_","e","x","t","r","a","c","t",">">>}

\* streamConversation starts reading the body of the response
StartStream ==
  /\ stream.phase = "idle"
  /\ \E reply \in Replies :
       stream' = [NoStream EXCEPT !.phase = "reading", !.reply = reply]
  /\ UNCHANGED <<canvas, last, wire, space, now, hook, transfer, parser, compared, merged, store>>

\* a content_block_delta event with a non-empty text_delta: the text is the
\* next piece of the reply, cut anywhere
TextDelta ==
  /\ stream.phase = "reading"
  /\ stream.deltas < MaxFragments
  /\ \E n \in 1..(Len(stream.reply) - Len(stream.rawAssistantText)) :
       LET text == SubSeq(stream.reply, Len(stream.rawAssistantText) + 1,
                          Len(stream.rawAssistantText) + n)
           raw == stream.rawAssistantText \o text
       IN stream' = [stream EXCEPT !.rawAssistantText = raw,
                                   !.deltas = @ + 1,
                                   !.called = TRUE,
                                   !.shown = stripExtractTail(raw)]
  /\ UNCHANGED <<canvas, last, wire, space, now, hook, transfer, parser, compared, merged, store>>

\* reader.read() reports done once the whole reply has arrived, and the
\* call returns the text of parseAssistantExtract(rawAssistantText)
StreamDone ==
  /\ stream.phase = "reading"
  /\ stream.rawAssistantText = stream.reply
  /\ stream' = [stream EXCEPT
                  !.phase = "done",
                  !.text = parseAssistantExtract(stream.rawAssistantText).text]
  /\ UNCHANGED <<canvas, last, wire, space, now, hook, transfer, parser, compared, merged, store>>

NextStream ==
  \/ StartStream
  \/ TextDelta
  \/ StreamDone

SpecStream == Init /\ [][NextStream]_vars

(***************************************************************************)
(* Reading: the chunks of one response body, and the result returned when  *)
(* the body ends.                                                          *)
(***************************************************************************)
\* bodies the model's server sends: with the blank line that ends an event
\* after the last event, with a newline only, and with neither
Bodies ==
  {bodyOf(texts, ending) :
     texts \in {<<tHi>>, <<tHi, tBang>>},
     ending \in {newline \o newline, newline, <<>>}}

\* a body with a line that is no JSON between two text_delta events, and
\* one with an event that is no text_delta there
tPing == <<"{","\"","t","y","p","e","\"",":","\"","p","i","n","g","\"","}">>

MalformedBodies ==
  {bodyOf(<<tHi>>, newline \o newline)
     \o tData \o <<" ">> \o line \o newline \o newline
     \o bodyOf(<<tBang>>, newline \o newline) : line \in {tOops, tPing}}

\* fetch answers: a status that is not a success makes streamConversation
\* throw (wire.body is then the reason), otherwise response.body.getReader()
StartRead ==
  /\ wire.phase = "idle"
  /\ \E ok \in BOOLEAN, body \in Bodies \cup MalformedBodies :
       wire' = IF ok THEN [NoWire EXCEPT !.phase = "reading", !.body = body]
               ELSE [NoWire EXCEPT !.phase = "failed", !.ok = FALSE, !.body = body,
                                   !.threw = TRUE]
  /\ UNCHANGED <<canvas, last, stream, space, now, hook, transfer, parser, compared, merged, store>>

\* reader.read() delivers the next chunk of the body, cut anywhere
ReadChunk ==
  /\ wire.phase = "reading"
  /\ wire.chunks < MaxChunks
  /\ \E n \in 1..(Len(wire.body) - wire.delivered) :
       LET value == SubSeq(wire.body, wire.delivered + 1, wire.delivered + n)
           lines == splitLines(wire.buffer \o value)
       IN wire' = [wire EXCEPT
                     !.delivered = @ + n,
                     !.chunks = @ + 1,
                     !.buffer = lines[Len(lines)],
                     !.rawAssistantText =
                       @ \o textOfLines(SubSeq(lines, 1, Len(lines) - 1)),
                     !.notified =
                       @ + Cardinality({i \in 1..(Len(lines) - 1) :
                                          textOfLine(lines[i]) # <<>>})]
  /\ UNCHANGED <<canvas, last, stream, space, now, hook, transfer, parser, compared, merged, store>>

\* reader.read() reports done: the loop ends and the text accumulated is
\* parsed
ReadDone ==
  /\ wire.phase = "reading"
  /\ wire.delivered = Len(wire.body)
  /\ wire' = [wire EXCEPT !.phase = "done",
                          !.result = parseAssistantExtract(wire.rawAssistantText)]
  /\ UNCHANGED <<canvas, last, stream, space, now, hook, transfer, parser, compared, merged, store>>

NextWire ==
  \/ StartRead
  \/ ReadChunk
  \/ ReadDone

SpecWire == Init /\ [][NextWire]_vars

(***************************************************************************)
(* Telemetry: applyExtract with what the parser reported.                  *)
(***************************************************************************)
tAnswer == <<"A","n","s","w","e","r"," ","t","e","x","t","\n">>

\* replies the parser is given: without a block, with a block that parses,
\* with a block that does not
ParsedReplies ==
  {parseAssistantExtract(reply) :
     reply \in {tAnswer,
                tAnswer \o startTag \o tOptionKafka \o endTag,
                tAnswer \o startTag \o tOops \o endTag}}

\* applyExtract(spaceId, messageId, response.extract, {parse_error,
\* raw_extract}): the canvas and the telemetry are one set(); the failure
\* reads the clock
ApplyParsed ==
  \E response \in ParsedReplies :
    LET telemetry == [parse_error |-> response.parse_error,
                      raw_extract |-> response.raw_extract]
        threw == applyExtractDraft(canvas, response.extract).threw
        failed == ~threw /\ telemetry.parse_error # null
    IN /\ Entities(canvas) + Proposals(response.extract) <= MaxEntities
       /\ failed => space.extraction_failures < FailureLogCap + MaxEvictions
       /\ Committed("applyExtract",
                    [NoArgs EXCEPT !.extract = response.extract,
                                   !.telemetry = telemetry],
                    applyExtract(canvas, response.extract), threw)
       /\ now' = IF failed THEN now + 1 ELSE now
       /\ space' = IF threw THEN space
                   ELSE recordExtractionFailure(space, now + 1, undefined, telemetry)
       /\ UNCHANGED <<stream, wire, hook, transfer, parser, compared, merged, store>>

NextTelemetry ==
  \/ ApplyParsed
  \/ DeleteOption

SpecTelemetry == Init /\ [][NextTelemetry]_vars

(***************************************************************************)
(* Requests: send, retry and regenerate, and the requests they start.      *)
(***************************************************************************)
\* the conversation, the message and the space a request is about
ArgumentsOf(request) ==
  [conversation |-> request.conversation,
   assistantMessageId |-> request.assistantMessageId,
   spaceId |-> request.spaceId]

\* what the step was: the operation, the request it was about and the
\* canvas that request was sent with, the canvas and the space before it
Stepped(op, request) ==
  [op |-> op, messageId |-> request.assistantMessageId, canvas |-> canvas,
   space |-> space, request |-> ArgumentsOf(request),
   canvasSnapshot |-> IF "canvasSnapshot" \in DOMAIN request
                        THEN request.canvasSnapshot ELSE canvas]

\* the arguments of runConversationRequest: the space, the canvas of the
\* moment, the conversation sent, the message the reply goes to
Request(canvasSnapshot, conversation, assistantMessageId) ==
  [spaceId |-> theSpaceId, canvasSnapshot |-> canvasSnapshot,
   conversation |-> conversation, assistantMessageId |-> assistantMessageId]

\* runConversationRequest up to its await
Started(h, op, request) ==
  [h EXCEPT !.isSending = TRUE, !.error = null,
            !.inFlight = Append(@, request),
            !.step = Stepped(op, request)]

\* setLastFailedRequest of the catch block, with the conversation left out
setLastFailedRequestWithoutConversation(request) ==
  [conversation |-> <<>>,
   assistantMessageId |-> request.assistantMessageId,
   spaceId |-> request.spaceId]

\* setLastFailedRequest({ conversation, assistantMessageId, spaceId })
setLastFailedRequest(request) ==
  [conversation |-> request.conversation,
   assistantMessageId |-> request.assistantMessageId,
   spaceId |-> request.spaceId]

\* send(draft) with a draft and an API key: the user's message, the
\* assistant's empty message, and the request
send ==
  /\ hook.made + 2 <= MaxMessages
  /\ Len(hook.inFlight) < MaxInFlight
  /\ LET userMessage == [id |-> hook.made + 1, role |-> "user", content |-> tHi]
         assistantMessage == [id |-> hook.made + 2, role |-> "assistant",
                              content |-> <<>>]
     IN /\ space' = addMessage(addMessage(space, userMessage), assistantMessage)
        /\ hook' = [Started(hook, "send",
                            Request(canvas, Append(space.conversation, userMessage),
                                    assistantMessage.id))
                      EXCEPT !.made = @ + 2]
  /\ UNCHANGED <<canvas, last, stream, wire, now, transfer, parser, compared, merged, store>>

\* the Send button, disabled while isSending
ClickSend ==
  /\ ~hook.isSending
  /\ send

\* Enter in the composer
PressEnter == send

\* the Retry button
RetryLastFailed ==
  /\ hook.lastFailedRequest # NoRequest
  /\ ~hook.isSending
  /\ Len(hook.inFlight) < MaxInFlight
  /\ hook' = Started(hook, "retryLastFailed",
                     [spaceId |-> hook.lastFailedRequest.spaceId,
                      canvasSnapshot |-> canvas,
                      conversation |-> hook.lastFailedRequest.conversation,
                      assistantMessageId |-> hook.lastFailedRequest.assistantMessageId])
  /\ UNCHANGED <<canvas, last, stream, wire, space, now, transfer, parser, compared, merged, store>>

\* the Regenerate button
Regenerate ==
  /\ ~hook.isSending
  /\ Len(space.conversation) > 0
  /\ LET latest == space.conversation[Len(space.conversation)]
     IN IF latest.role # "assistant"
          THEN /\ hook' = [hook EXCEPT !.error = tRegenerateError,
                                       !.step = Stepped("regenerate", NoRequest)]
               /\ UNCHANGED space
          ELSE /\ hook.made + 1 <= MaxMessages
               /\ Len(hook.inFlight) < MaxInFlight
               /\ space' = addMessage(removeMessage(space, latest.id),
                                      [id |-> hook.made + 1, role |-> "assistant",
                                       content |-> <<>>])
               /\ hook' = [Started(hook, "regenerate",
                                   Request(canvas, SubSeq(space.conversation, 1,
                                                  Len(space.conversation) - 1),
                                           hook.made + 1))
                             EXCEPT !.made = @ + 1]
  /\ UNCHANGED <<canvas, last, stream, wire, now, transfer, parser, compared, merged, store>>

\* onTextDelta of a request in flight
OnTextDelta ==
  \E i \in DOMAIN hook.inFlight :
    /\ space' = updateMessageContent(space, hook.inFlight[i].assistantMessageId, tHi)
    /\ hook' = [hook EXCEPT !.step = Stepped("onTextDelta", hook.inFlight[i])]
    /\ UNCHANGED <<canvas, last, stream, wire, now, transfer, parser, compared, merged, store>>

\* streamConversation of a request in flight throws
RequestFails ==
  \E i \in DOMAIN hook.inFlight :
    LET request == hook.inFlight[i]
        messageId == request.assistantMessageId
    IN /\ space' = failedRequest(space, messageId, tApiError)
       /\ hook' = [hook EXCEPT
                     !.isSending = FALSE,
                     !.error = tApiError,
                     !.lastFailedRequest = setLastFailedRequest(request),
                     !.inFlight = RemoveAt(@, i),
                     !.step = Stepped("failed", request)]
       /\ UNCHANGED <<canvas, last, stream, wire, now, transfer, parser, compared, merged, store>>

\* the replies a request is answered with
AnsweredReplies ==
  ParsedReplies
    \cup {parseAssistantExtract(tAnswer \o startTag \o tConstraintsNull \o endTag)}

\* response.usage === null: the stream of the reply without a block comes
\* with a usage or without one, the streams of the others without
Estimated(response) ==
  IF response.raw_extract = null THEN BOOLEAN ELSE {TRUE}

\* the canvas applyExtract works on, were it the snapshot taken when the
\* request was sent
draftOfSnapshot(request, current) ==
  request.canvasSnapshot

\* the canvas applyExtract works on: structuredClone(space.design_canvas) of
\* the space in the store at the time set() runs the updater
draftOf(request, current) ==
  current

\* streamConversation of a request in flight returns: the text, the
\* extract, the usage; an applyExtract that throws ends in the catch block
RequestReturns ==
  \E i \in DOMAIN hook.inFlight, response \in AnsweredReplies :
   \E estimated \in Estimated(response) :
    LET request == hook.inFlight[i]
        messageId == request.assistantMessageId
        telemetry == [parse_error |-> response.parse_error,
                      raw_extract |-> response.raw_extract]
        draft == draftOf(request, canvas)
        threw == applyExtractDraft(draft, response.extract).threw
        failed == telemetry.parse_error # null
        shown == updateMessageContent(space, messageId, response.text)
    IN /\ Entities(canvas) + Proposals(response.extract) <= MaxEntities
       /\ Committed("applyExtract",
                    [NoArgs EXCEPT !.extract = response.extract,
                                   !.telemetry = telemetry],
                    applyExtract(draft, response.extract), threw)
       /\ IF threw
            THEN /\ space' = failedRequest(shown, messageId, tNotIterable)
                 /\ now' = now
                 /\ hook' = [hook EXCEPT
                               !.isSending = FALSE,
                               !.error = tNotIterable,
                               !.lastFailedRequest = setLastFailedRequest(request),
                               !.inFlight = RemoveAt(@, i),
                               !.step = Stepped("failed", request)]
            ELSE /\ space' = recordUsage(
                               recordExtractionFailure(shown, now + 1, messageId, telemetry),
                               [estimated |-> estimated])
                 /\ now' = IF failed THEN now + 1 ELSE now
                 /\ hook' = [hook EXCEPT
                               !.isSending = FALSE,
                               !.lastFailedRequest = NoRequest,
                               !.inFlight = RemoveAt(@, i),
                               !.step = Stepped("returned", request)]
       /\ UNCHANGED <<stream, wire, transfer, parser, compared, merged, store>>

NextRequests ==
  \/ ClickSend
  \/ PressEnter
  \/ RetryLastFailed
  \/ Regenerate
  \/ OnTextDelta
  \/ RequestFails
  \/ RequestReturns

SpecRequests == Init /\ [][NextRequests]_vars

\* a request is in flight
InFlight == Len(hook.inFlight) > 0

\* requests, and the decisions the user adds and the options the user
\* deletes by hand while they are in flight
NextInFlight ==
  \/ PressEnter
  \/ OnTextDelta
  \/ RequestFails
  \/ RequestReturns
  \/ (InFlight /\ AddDecision)
  \/ (InFlight /\ DeleteOption)

SpecInFlight == Init /\ [][NextInFlight]_vars

(***************************************************************************)
(* The store's spaces: created, deleted, replaced, and changed one at a    *)
(* time by the operations that name a space.                               *)
(***************************************************************************)
\* set() commits `next`; store remembers the operation and the state before
Set(op, id, next) ==
  /\ now < MaxStoreOps
  /\ store' = [spaces |-> next.spaces, activeSpaceId |-> next.activeSpaceId,
               op |-> op, id |-> id,
               pre |-> [spaces |-> store.spaces, activeSpaceId |-> store.activeSpaceId]]
  /\ now' = now + 1
  /\ UNCHANGED <<canvas, last, stream, wire, space, hook, transfer, parser, compared, merged>>

\* the ids an operation may be handed: those of the spaces, and one of no
\* space
SpaceIdInputs ==
  {store.spaces[i].id : i \in DOMAIN store.spaces} \cup {newSpaceId(store.spaces)}

\* the lists replaceSpaces may be handed: none, one or two spaces, with
\* ids the store may hold too
ReplacementLists ==
  {<<>>,
   <<createNewSpaceTitled(2, tKafka, 0)>>,
   <<createNewSpaceTitled(2, tKafka, 0), sampleSpace(1, 0)>>}

CreateSpace ==
  Set("createSpace", undefined,
      createSpace(store, createNewSpaceTitled(newSpaceId(store.spaces),
                                              tUntitledDesign, now + 1)))

CreateSampleSpace ==
  Set("createSampleSpace", undefined,
      createSampleSpace(store, sampleSpace(newSpaceId(store.spaces), now + 1)))

DeleteSpace ==
  \E id \in SpaceIdInputs :
    Set("deleteSpace", id,
        deleteSpace(store, id,
                    createNewSpaceTitled(newSpaceId(store.spaces), tUntitledDesign,
                                         now + 1)))

ReplaceSpaces ==
  \E spaces \in ReplacementLists, nextActiveSpaceId \in {undefined, 1, 2, 3} :
    Set("replaceSpaces", nextActiveSpaceId,
        replaceSpaces(spaces, nextActiveSpaceId,
                      createNewSpaceTitled(newSpaceId(store.spaces), tUntitledDesign,
                                           now + 1)))

\* an operation that names a space: updateSpace with its updater
Update(name, spaceId, text) ==
  Set(name, spaceId,
      [spaces |-> updateSpace(store.spaces, spaceId, [name |-> name, text |-> text],
                              now + 1),
       activeSpaceId |-> store.activeSpaceId])

UpdateSpaceTitle ==
  \E spaceId \in SpaceIdInputs : Update("updateSpaceTitle", spaceId, tKafka)

SetProblemStatement ==
  \E spaceId \in SpaceIdInputs : Update("setProblemStatement", spaceId, tKafkaLog)

AddOptionToSpace ==
  \E spaceId \in SpaceIdInputs : Update("addOption", spaceId, <<>>)

NextStore ==
  \/ CreateSpace
  \/ CreateSampleSpace
  \/ DeleteSpace
  \/ ReplaceSpaces
  \/ UpdateSpaceTitle
  \/ SetProblemStatement
  \/ AddOptionToSpace

SpecStore == Init /\ [][NextStore]_vars

(***************************************************************************)
(* Transfer: export of the store's spaces and import of a document.  The   *)
(* import is the last step of a run; transfer.store is the store after it, *)
(* canvas and space the one space of the store before it.                  *)
(***************************************************************************)
\* documents picked for import that no export wrote
PickedDocuments ==
  {<<>>,
   [spaces |-> <<>>, notArrays |-> {"spaces"}],
   [spaces |-> <<>>],
   [spaces |-> <<[id |-> theSpaceId]>>],
   [spaces |-> <<[id |-> theSpaceId, design_canvas |-> <<>>]>>],
   [spaces |-> <<[id |-> theSpaceId,
                  design_canvas |->
                    [options |-> <<[id |-> 1, title |-> tKafka, status |-> "considering"]>>,
                     decisions |-> <<>>, constraints |-> <<>>,
                     open_questions |-> <<>>, references |-> <<>>,
                     active_option_id |-> 2]]>>]}

\* onExportJson, and the file it wrote picked for import
ExportThenImport ==
  /\ transfer.phase = "idle"
  /\ LET document == exportSpacesPayload(<<spaceDocument(canvas, space)>>, theSpaceId, now + 1)
         stored == [spaces |-> <<spaceDocument(canvas, space)>>, activeSpaceId |-> theSpaceId]
     IN transfer' = [phase |-> "exported", document |-> document,
                     imported |-> importSpacesPayload(document),
                     store |-> onImportFileChange(stored, document)]
  /\ now' = now + 1
  /\ UNCHANGED <<canvas, last, stream, wire, space, hook, parser, compared, merged, store>>

\* onImportFileChange with a file whose text is JSON
ImportPicked ==
  /\ transfer.phase = "idle"
  /\ \E document \in PickedDocuments :
       LET stored == [spaces |-> <<spaceDocument(canvas, space)>>, activeSpaceId |-> theSpaceId]
       IN transfer' = [phase |-> "picked", document |-> document,
                       imported |-> importSpacesPayload(document),
                       store |-> onImportFileChange(stored, document)]
  /\ UNCHANGED <<canvas, last, stream, wire, space, now, hook, parser, compared, merged, store>>

NextTransfer ==
  \/ ExportThenImport
  \/ ImportPicked
  \/ (transfer.phase = "idle" /\ AddOption)
  \/ (transfer.phase = "idle" /\ ClearActiveOption)
  \/ (transfer.phase = "idle" /\ RejectOption)
  \/ (transfer.phase = "idle" /\ AddDecision)
  \/ (transfer.phase = "idle" /\ AddConstraint)
  \/ (transfer.phase = "idle" /\ DeleteOption)

SpecTransfer == Init /\ [][NextTransfer]_vars

(***************************************************************************)
(* parseAssistantExtract (lib/extract.ts) on replies put together from a   *)
(* text before the block, the start tag, white space, the interior, white  *)
(* space, the end tag, and a text after the block.                         *)
(***************************************************************************)
tStartTagCapitals == <<"<","D","E","S","I","G","N","_","E","X","T","R","A","C","T",">">>
tHiSpaced == <<" "," ","H","i"," ">>
tThanks == <<"\n","T","h","a","n","k","s",".">>

Befores == {<<>>, tAnswer, tHiSpaced}
StartTags == {startTag, tStartTagCapitals}
Spaces == {<<>>, <<"\n", " ">>}
Interiors ==
  {tEmptyObject, tAllEmpty, tOptionKafka, tDecisionRedis, tNull,
   tConstraintsNull, tOops, <<>>}
\* after the block: nothing, a sentence, or a second block
Afters == {<<>>, tThanks, startTag \o tOptionKafka \o endTag}

\* the reply of the parts; one that is not closed has no end tag
replyOf(parts) ==
  parts.before \o parts.open \o parts.space \o parts.interior
    \o (IF parts.closed THEN parts.space \o endTag ELSE <<>>) \o parts.after

\* the calls of the model, which are all of AllCalls but those that are
\* not closed and have an end tag after the block
AllCalls ==
  {[NoCall EXCEPT !.phase = "called", !.before = before, !.open = open,
                  !.space = sp, !.interior = interior, !.closed = closed,
                  !.after = after,
                  !.raw = replyOf([before |-> before, open |-> open, space |-> sp,
                                   interior |-> interior, closed |-> closed,
                                   after |-> after])] :
     before \in Befores, open \in StartTags, sp \in Spaces,
     interior \in Interiors, closed \in BOOLEAN, after \in Afters}

Calls ==
  {call \in AllCalls : call.closed \/ indexOfFrom(call.after, endTag, 1) = 0}

InitParse ==
  /\ canvas = createEmptyCanvas
  /\ last = [op |-> "createNewSpace", pre |-> createEmptyCanvas, id |-> undefined,
             id2 |-> undefined, kind |-> "", text |-> <<>>,
             extract |-> createEmptyExtract, threw |-> FALSE,
             telemetry |-> NoTelemetry, space |-> createNewSpace]
  /\ stream = NoStream
  /\ wire = NoWire
  /\ space = createNewSpace
  /\ now = 0
  /\ hook = useConversation
  /\ transfer = NoTransfer
  /\ merged = NoMerge
  /\ store = useAppStore
  /\ compared = NoComparison
  /\ parser \in Calls

\* the call returns
Parse ==
  /\ parser.phase = "called"
  /\ parser' = [parser EXCEPT !.phase = "returned",
                               !.result = parseAssistantExtract(parser.raw)]
  /\ UNCHANGED <<canvas, last, stream, wire, space, now, hook, transfer, compared, merged, store>>

NextParse ==
  Parse

SpecParse == InitParse /\ [][NextParse]_vars

(***************************************************************************)
(* stripExtractTail (lib/extract.ts) on the same replies, on replies       *)
(* without a start tag, and on the partial reply of its test.              *)
(***************************************************************************)
tVisibleResponse == <<"V","i","s","i","b","l","e"," ","r","e","s","p","o","n","s","e">>
tNewDecisionsOpen == <<"{","\"","n","e","w","_","d","e","c","i","s","i","o","n","s","\"",":","[","]">>

\* replies without a start tag
UntaggedCalls ==
  {[NoCall EXCEPT !.phase = "called", !.before = before, !.after = after,
                  !.raw = before \o after] :
     before \in Befores, after \in {<<>>, tThanks, endTag}}

\* the partial reply of the test
TestCalls ==
  {[NoCall EXCEPT !.phase = "called", !.before = tVisibleResponse,
                  !.open = startTag, !.interior = tNewDecisionsOpen,
                  !.raw = tVisibleResponse \o startTag \o tNewDecisionsOpen]}

\* the store, the stream, the hook and the transfer at rest
AtRest ==
  /\ canvas = createEmptyCanvas
  /\ last = [op |-> "createNewSpace", pre |-> createEmptyCanvas, id |-> undefined,
             id2 |-> undefined, kind |-> "", text |-> <<>>,
             extract |-> createEmptyExtract, threw |-> FALSE,
             telemetry |-> NoTelemetry, space |-> createNewSpace]
  /\ stream = NoStream
  /\ wire = NoWire
  /\ space = createNewSpace
  /\ now = 0
  /\ hook = useConversation
  /\ transfer = NoTransfer
  /\ merged = NoMerge
  /\ store = useAppStore

InitStrip ==
  /\ AtRest
  /\ compared = NoComparison
  /\ parser \in Calls \cup UntaggedCalls \cup TestCalls

\* stripExtractTail(raw) returns
Strip ==
  /\ parser.phase = "called"
  /\ parser' = [parser EXCEPT !.phase = "stripped",
                               !.result = stripExtractTail(parser.raw)]
  /\ UNCHANGED <<canvas, last, stream, wire, space, now, hook, transfer, compared, merged, store>>

NextStrip ==
  Strip

SpecStrip == InitStrip /\ [][NextStrip]_vars

(***************************************************************************)
(* parseCrystallize (services/anthropic.ts) on replies.                    *)
(***************************************************************************)
crystallizeStartTag == <<"<","c","r","y","s","t","a","l","l","i","z","e","_","o","u","t","p","u","t",">">>
crystallizeEndTag == <<"<","/","c","r","y","s","t","a","l","l","i","z","e","_","o","u","t","p","u","t",">">>
tCrystallizeCapitals == <<"<","C","R","Y","S","T","A","L","L","I","Z","E","_","O","U","T","P","U","T",">">>
tFive == <<"5">>
tEmptyArray == <<"[","]">>
tDocOnly == <<"{","\"","d","e","s","i","g","n","_","d","o","c","\"",":","\""," ","#"," ","D","o","c"," ","\"","}">>
tTestOutput == <<"{","\"","d","e","s","i","g","n","_","d","o","c","\"",":","\"","#"," ","D","o","c","\"",",","\"","t","a","s","k","s","\"",":","[","{","\"","t","i","t","l","e","\"",":","\"","T","a","s","k"," ","A","\"",",","\"","d","e","s","c","r","i","p","t","i","o","n","\"",":","\"","D","o"," ","A","\"",",","\"","c","o","n","t","e","x","t","\"",":","\"","C","t","x","\"",",","\"","f","i","l","e","s","_","c","o","m","p","o","n","e","n","t","s","\"",":","[","\"","s","r","c","/","a",".","t","s","\"","]",",","\"","a","c","c","e","p","t","a","n","c","e","_","c","r","i","t","e","r","i","a","\"",":","[","\"","A","\"","]",",","\"","d","e","p","e","n","d","s","_","o","n","\"",":","[","]",",","\"","r","e","l","a","t","e","d","_","d","e","c","i","s","i","o","n","s","\"",":","[","]","}","]","}">>
tTitleOnly == <<"{","\"","d","e","s","i","g","n","_","d","o","c","\"",":","\"","#"," ","D","o","c","\"",",","\"","t","a","s","k","s","\"",":","[","{","\"","t","i","t","l","e","\"",":","\"","T","a","s","k"," ","A","\"","}","]","}">>
tDocNumber == <<"{","\"","d","e","s","i","g","n","_","d","o","c","\"",":","5","}">>
tTasksNull == <<"{","\"","t","a","s","k","s","\"",":","[","n","u","l","l","]","}">>
tDoc == <<"#"," ","D","o","c">>
tDocSpaced == <<" ","#"," ","D","o","c"," ">>
tTaskA == <<"T","a","s","k"," ","A">>
tDoA == <<"D","o"," ","A">>
tCtx == <<"C","t","x">>
tSrcA == <<"s","r","c","/","a",".","t","s">>
tA == <<"A">>
tMarkdownFallback == <<"#"," ","M","a","r","k","d","o","w","n"," ","f","a","l","l","b","a","c","k">>

\* the texts JSON.parse reads here, and the values it returns: a number, an
\* array, null, or an object with the fields it gives; notStrings lists the
\* fields that hold a number, nullTask tells that tasks holds a null
CrystallizeValues ==
  <<[text |-> tFive, value |-> [kind |-> "number"]],
    [text |-> tEmptyArray, value |-> [kind |-> "array"]],
    [text |-> tNull, value |-> [kind |-> "null"]],
    [text |-> tEmptyObject,
     value |-> [kind |-> "object", fields |-> <<>>, notStrings |-> {},
                nullTask |-> FALSE]],
    [text |-> tDocOnly,
     value |-> [kind |-> "object", fields |-> [design_doc |-> tDocSpaced],
                notStrings |-> {}, nullTask |-> FALSE]],
    [text |-> tTestOutput,
     value |-> [kind |-> "object",
                fields |-> [design_doc |-> tDoc,
                            tasks |-> <<[title |-> tTaskA, description |-> tDoA,
                                         context |-> tCtx,
                                         files_components |-> <<tSrcA>>,
                                         acceptance_criteria |-> <<tA>>,
                                         depends_on |-> <<>>,
                                         related_decisions |-> <<>>]>>],
                notStrings |-> {}, nullTask |-> FALSE]],
    [text |-> tTitleOnly,
     value |-> [kind |-> "object",
                fields |-> [design_doc |-> tDoc, tasks |-> <<[title |-> tTaskA]>>],
                notStrings |-> {}, nullTask |-> FALSE]],
    [text |-> tDocNumber,
     value |-> [kind |-> "object", fields |-> [design_doc |-> <<>>],
                notStrings |-> {"design_doc"}, nullTask |-> FALSE]],
    [text |-> tTasksNull,
     value |-> [kind |-> "object", fields |-> [tasks |-> <<>>], notStrings |-> {},
                nullTask |-> TRUE]]>>

\* JSON.parse(match[1])
JSONparseCrystallize(text) ==
  IF \E i \in DOMAIN CrystallizeValues : CrystallizeValues[i].text = text
    THEN [threw |-> FALSE,
          value |-> CrystallizeValues[CHOOSE i \in DOMAIN CrystallizeValues :
                                        CrystallizeValues[i].text = text].value]
    ELSE [threw |-> TRUE]

\* the match of /<crystallize_output>\s*([\s\S]*?)\s*<\/crystallize_output>/i
matchCrystallize(raw) ==
  LET start == indexOfFrom(raw, crystallizeStartTag, 1)
      end == IF start = 0 THEN 0
             ELSE indexOfFrom(raw, crystallizeEndTag, start + Len(crystallizeStartTag))
  IN IF end = 0 THEN [found |-> FALSE]
     ELSE [found |-> TRUE, first |-> start, last |-> end + Len(crystallizeEndTag) - 1,
           group |-> trim(SubSeq(raw, start + Len(crystallizeStartTag), end - 1))]

\* a list field of a task: task.<field> ?? []
listOf(task, field) == IF field \in DOMAIN task THEN task[field] ELSE <<>>

\* the task built from a listed one; the position stands for the UUID
taskOf(task, position) ==
  [id |-> position,
   title |-> get(task, "title"),
   description |-> get(task, "description"),
   context |-> get(task, "context"),
   files_components |-> listOf(task, "files_components"),
   acceptance_criteria |-> listOf(task, "acceptance_criteria"),
   depends_on |-> listOf(task, "depends_on"),
   related_decisions |-> listOf(task, "related_decisions")]

\* parseCrystallize: a TypeError in the try (a field read of null, a trim
\* that is no function) ends in the catch as a SyntaxError does
parseCrystallize(raw) ==
  LET match == matchCrystallize(raw)
  IN IF ~match.found THEN [design_doc |-> trim(raw), tasks |-> <<>>]
     ELSE LET caught == [design_doc |-> trim(SubSeq(raw, 1, match.first - 1)
                                               \o SubSeq(raw, match.last + 1, Len(raw))),
                         tasks |-> <<>>]
              parsed == JSONparseCrystallize(match.group)
          IN IF parsed.threw \/ parsed.value.kind = "null" THEN caught
             ELSE IF parsed.value.kind # "object"
               THEN [design_doc |-> <<>>, tasks |-> <<>>]
             ELSE IF "design_doc" \in parsed.value.notStrings \/ parsed.value.nullTask
               THEN caught
             ELSE LET fields == parsed.value.fields
                  IN [design_doc |-> IF "design_doc" \in DOMAIN fields
                                       THEN trim(fields.design_doc) ELSE <<>>,
                      tasks |-> IF "tasks" \in DOMAIN fields
                                  THEN [i \in DOMAIN fields.tasks |->
                                          taskOf(fields.tasks[i], i)]
                                  ELSE <<>>]

CrystallizeInteriors ==
  {tFive, tEmptyArray, tNull, tEmptyObject, tDocOnly, tTestOutput, tTitleOnly,
   tDocNumber, tTasksNull, tOops, <<>>}

\* the replies: a block or a start tag alone, with text around it; the test's
\* two inputs are among them
CrystallizeCalls ==
  {[NoCall EXCEPT !.phase = "called", !.before = before, !.open = open,
                  !.space = sp, !.interior = interior, !.closed = closed,
                  !.after = after,
                  !.raw = before \o open \o sp \o interior
                            \o (IF closed THEN sp \o crystallizeEndTag ELSE <<>>)
                            \o after] :
     before \in {<<>>, tHiSpaced}, open \in {crystallizeStartTag, tCrystallizeCapitals},
     sp \in Spaces, interior \in CrystallizeInteriors, closed \in BOOLEAN,
     after \in {<<>>, tThanks}}
    \cup {[NoCall EXCEPT !.phase = "called", !.raw = tMarkdownFallback,
                         !.before = tMarkdownFallback]}

InitCrystallize ==
  /\ AtRest
  /\ compared = NoComparison
  /\ parser \in CrystallizeCalls

\* parseCrystallize(raw) returns
Crystallize ==
  /\ parser.phase = "called"
  /\ parser' = [parser EXCEPT !.phase = "crystallized",
                               !.result = parseCrystallize(parser.raw)]
  /\ UNCHANGED <<canvas, last, stream, wire, space, now, hook, transfer, compared, merged, store>>

NextCrystallize ==
  Crystallize

SpecCrystallize == InitCrystallize /\ [][NextCrystallize]_vars

(***************************************************************************)
(* isNearDuplicate (lib/extract.ts) on pairs of phrases.                   *)
(***************************************************************************)
tUseRedisPubSub == <<"U","s","e"," ","R","e","d","i","s"," ","P","u","b","/","S","u","b">>
tRedisPubsubApproach == <<"R","e","d","i","s"," ","p","u","b","s","u","b"," ","a","p","p","r","o","a","c","h">>
tUseWebSockets == <<"U","s","e"," ","W","e","b","S","o","c","k","e","t","s">>
tUseKafka == <<"U","s","e"," ","K","a","f","k","a">>
tRedisV2 == <<"R","e","d","i","s"," ","v","2">>
tRedisDB == <<"R","e","d","i","s"," ","D","B">>
tKafkaEventLog == <<"K","a","f","k","a"," ","e","v","e","n","t"," ","l","o","g">>
tEventLogStore == <<"E","v","e","n","t"," ","l","o","g"," ","s","t","o","r","e">>
tQuestionMarks == <<"?","?">>
tBangs == <<"!","!">>

Phrases ==
  {tUseRedisPubSub, tRedisPubsubApproach, tUseWebSockets, tUseKafka, tRedisV2,
   tRedisDB, tKafkaEventLog, tEventLogStore, tQuestionMarks, tBangs, tRedis,
   tUseRedis, tKafka, <<>>}

InitCompare ==
  /\ AtRest
  /\ parser = NoCall
  /\ compared \in {[NoComparison EXCEPT !.phase = "called", !.a = a, !.b = b] :
                     a \in Phrases, b \in Phrases}

\* isNearDuplicate(a, b) returns
Compare ==
  /\ compared.phase = "called"
  /\ compared' = [compared EXCEPT !.phase = "returned",
                                   !.result = isNearDuplicate(compared.a, compared.b)]
  /\ UNCHANGED <<canvas, last, stream, wire, space, now, hook, transfer, parser, merged, store>>

NextCompare ==
  Compare

SpecCompare == InitCompare /\ [][NextCompare]_vars

(***************************************************************************)
(* The merge on the whole space: replies added to the conversation and     *)
(* applyExtract with the extracts they carry.                              *)
(***************************************************************************)
tFast == <<"F","a","s","t">>
tCheapSpaced == <<" ","C","h","e","a","p","\n">>

\* the ids of the messages, in the order they are added
MessageIds == <<"m1", "m2", "m3", "m4">>

\* the extracts a reply may carry for the canvas c
SpaceExtracts(c) ==
  {<<>>,
   [new_options |-> <<[title |-> tRedis, description |-> tFast]>>],
   [new_options |-> <<[title |-> tRedis, description |-> <<>>],
                      [title |-> tUseRedis, description |-> tFast]>>],
   [new_decisions |-> <<[title |-> tNewDecision, reasoning |-> tFast, trade_offs |-> <<>>]>>],
   [new_options |-> <<[title |-> tKafka, description |-> <<>>]>>,
    option_status_changes |-> <<[option_title |-> tKafka, new_status |-> "selected"]>>,
    new_decisions |-> <<[title |-> tNewDecision, reasoning |-> tFast, trade_offs |-> <<>>]>>,
    new_constraints |-> <<[description |-> tNewConstraint]>>,
    new_open_questions |-> <<[question |-> tNewQuestion]>>,
    resolved_questions |-> <<[question |-> tNewQuestion]>>]}
  \cup {[option_status_changes |-> <<[option_title |-> tRedis, new_status |-> status]>>] :
          status \in {"selected", "rejected"}}
  \cup {[update_options |-> <<[id |-> id, description |-> text]>>] :
          id \in IdsOf(c.options) \cup {newId(c)}, text \in {tCheapSpaced, tBlank}}
  \cup {[update_decisions |-> <<[id |-> id, reasoning |-> tCheapSpaced,
                                 trade_offs |-> text]>>] :
          id \in IdsOf(c.decisions) \cup {newId(c)}, text \in {tCheapSpaced, tBlank}}

InitSpace ==
  /\ AtRest
  /\ parser = NoCall
  /\ compared = NoComparison

\* addMessage with the assistant message of a request
AddReply ==
  /\ Len(merged.space.conversation) < MaxApplies
  /\ merged' = [merged EXCEPT
                  !.space = addMessage(@, [id |-> MessageIds[Len(@.conversation) + 1],
                                           role |-> "assistant", content |-> <<>>,
                                           extracted_elements |-> <<>>]),
                  !.pre = merged.space,
                  !.op = "addMessage"]
  /\ UNCHANGED <<canvas, last, stream, wire, space, now, hook, transfer, parser, compared, store>>

\* applyExtract(spaceId, messageId, extract, telemetry) of a reply that parsed
ApplyToSpace ==
  /\ merged.applied < MaxApplies
  /\ Entities(merged.space.design_canvas) < MaxEntities
  /\ \E i \in DOMAIN merged.space.conversation :
       \E extract \in SpaceExtracts(merged.space.design_canvas) :
         LET messageId == merged.space.conversation[i].id
         IN merged' = [space |-> applyExtractToSpace(merged.space, messageId, extract,
                                                     NoTelemetry, now),
                       pre |-> merged.space, op |-> "applyExtract",
                       messageId |-> messageId,
                       extract |-> spread(createEmptyExtract, extract),
                       applied |-> merged.applied + 1]
  /\ UNCHANGED <<canvas, last, stream, wire, space, now, hook, transfer, parser, compared, store>>

NextSpace ==
  \/ AddReply
  \/ ApplyToSpace

SpecSpace == InitSpace /\ [][NextSpace]_vars

(***************************************************************************)
(* Order: the operations that create, delete and reorder the entities of   *)
(* the canvas.                                                             *)
(***************************************************************************)
PromoteToDecision ==
  /\ HasRoom
  /\ \E id \in OptionIdInputs :
       Did("promoteToDecision", [NoArgs EXCEPT !.id = id],
           promoteToDecision(canvas, id), FALSE)

DeleteItem ==
  \E kind \in ItemKinds :
    \E id \in IdsOf(ItemsOf(canvas, kind)) \cup {newId(canvas)} :
      Did("deleteItem", [NoArgs EXCEPT !.kind = kind, !.id = id],
          deleteItem(canvas, kind, id), FALSE)

DropTextToCanvas ==
  /\ HasRoom
  /\ \E target \in DropTargets, text \in DropTexts :
       /\ target = "problem_statement" => Len(canvas.problem_statement) = 0
       /\ Did("dropTextToCanvas", [NoArgs EXCEPT !.kind = target, !.text = text],
              dropTextToCanvas(canvas, target, text), FALSE)

ReorderOption ==
  \E id \in OptionIdInputs, direction \in Directions :
    Did("reorderOption", [NoArgs EXCEPT !.id = id, !.kind = direction],
        reorderOption(canvas, id, direction), FALSE)

MoveOption ==
  \E draggedId \in OptionIdInputs, targetId \in OptionIdInputs :
    Did("moveOption", [NoArgs EXCEPT !.id = draggedId, !.id2 = targetId],
        moveOption(canvas, draggedId, targetId), FALSE)

ReorderDecision ==
  \E id \in DecisionIdInputs, direction \in Directions :
    Did("reorderDecision", [NoArgs EXCEPT !.id = id, !.kind = direction],
        reorderDecision(canvas, id, direction), FALSE)

MoveDecision ==
  \E draggedId \in DecisionIdInputs, targetId \in DecisionIdInputs :
    Did("moveDecision", [NoArgs EXCEPT !.id = draggedId, !.id2 = targetId],
        moveDecision(canvas, draggedId, targetId), FALSE)

ReorderItem ==
  \E kind \in ItemKinds, direction \in Directions :
    \E id \in IdsOf(ItemsOf(canvas, kind)) \cup {newId(canvas)} :
      Did("reorderItem", [NoArgs EXCEPT !.kind = kind, !.id = id],
          reorderItem(canvas, kind, id, direction), FALSE)

MoveItem ==
  \E kind \in ItemKinds :
    \E draggedId \in IdsOf(ItemsOf(canvas, kind)) \cup {newId(canvas)},
       targetId \in IdsOf(ItemsOf(canvas, kind)) \cup {newId(canvas)} :
      Did("moveItem", [NoArgs EXCEPT !.kind = kind, !.id = draggedId, !.id2 = targetId],
          moveItem(canvas, kind, draggedId, targetId), FALSE)

\* the operations that add one entity and those that reorder
AddOps == {"addOption", "addDecision", "addConstraint", "addQuestion", "addReference"}
ReorderOps ==
  {"reorderOption", "moveOption", "reorderDecision", "moveDecision", "reorderItem",
   "moveItem"}

\* A run builds and arranges a canvas with the add, reorder and move
\* operations, and then takes one operation of any kind.
Arranging == last.op \in {"createNewSpace"} \cup AddOps \cup ReorderOps

NextOrder ==
  \/ (Arranging /\ AddOption)
  \/ (Arranging /\ AddDecision)
  \/ (Arranging /\ AddConstraint)
  \/ (Arranging /\ AddQuestion)
  \/ (Arranging /\ AddReference)
  \/ (Arranging /\ DropTextToCanvas)
  \/ (Arranging /\ ApplyExtract)
  \/ (Arranging /\ PromoteToDecision)
  \/ (Arranging /\ ReopenDecision)
  \/ (Arranging /\ DeleteOption)
  \/ (Arranging /\ DeleteDecision)
  \/ (Arranging /\ DeleteItem)
  \/ (Arranging /\ ReorderOption)
  \/ (Arranging /\ MoveOption)
  \/ (Arranging /\ ReorderDecision)
  \/ (Arranging /\ MoveDecision)
  \/ (Arranging /\ ReorderItem)
  \/ (Arranging /\ MoveItem)

SpecOrder == Init /\ [][NextOrder]_vars

(***************************************************************************)
(* Claims on the links.                                                    *)
(***************************************************************************)
Resolves(id, items) == id = undefined \/ id \in IdsOf(items)

\* C1: in every reachable state every Decision's option_id, when set, is the
\* id of an Option of the canvas, and every Constraint's, OpenQuestion's and
\* Reference's decision_id, when set, is the id of a Decision of the canvas.
C1_ReferentialIntegrity ==
  /\ \A i \in DOMAIN canvas.decisions :
       Resolves(canvas.decisions[i].option_id, canvas.options)
  /\ \A kind \in ItemKinds :
       \A i \in DOMAIN ItemsOf(canvas, kind) :
         Resolves(ItemsOf(canvas, kind)[i].decision_id, canvas.decisions)

\* C6: deleteOption(O) removes exactly option O, unsets option_id on every
\* Decision whose option_id was O, leaves every other field of a Decision
\* and every other Decision's option_id as they were, and removes no
\* Decision.
C6_DeleteOptionClearsDecisions ==
  last.op = "deleteOption" =>
    /\ canvas.options = SelectSeq(last.pre.options, LAMBDA o : o.id # last.id)
    /\ Len(canvas.decisions) = Len(last.pre.decisions)
    /\ \A i \in DOMAIN last.pre.decisions :
         LET before == last.pre.decisions[i]
             after == canvas.decisions[i]
         IN /\ after.id = before.id
            /\ after.title = before.title
            /\ after.option_id =
                 IF before.option_id = last.id THEN undefined ELSE before.option_id

\* C6 happens: an existing option was deleted that one decision belonged to
\* while another decision had another option_id
C6_Witness ==
  /\ last.op = "deleteOption"
  /\ last.id \in IdsOf(last.pre.options)
  /\ \E i, j \in DOMAIN last.pre.decisions :
       /\ last.pre.decisions[i].option_id = last.id
       /\ last.pre.decisions[j].option_id # last.id

UnlinkedFrom(before, id) ==
  [i \in DOMAIN before |->
     IF before[i].decision_id = id
       THEN [before[i] EXCEPT !.decision_id = undefined]
       ELSE before[i]]

\* C7: deleteDecision(D) removes exactly decision D and unsets decision_id
\* on every Constraint, OpenQuestion and Reference whose decision_id was D,
\* removing none of them and leaving the other links as they were.
C7_DeleteDecisionClearsLinks ==
  last.op = "deleteDecision" =>
    /\ canvas.decisions = SelectSeq(last.pre.decisions, LAMBDA d : d.id # last.id)
    /\ \A kind \in ItemKinds :
         ItemsOf(canvas, kind) = UnlinkedFrom(ItemsOf(last.pre, kind), last.id)

\* C7 happens: an existing decision was deleted that a reference was linked
\* to while another item was linked elsewhere
C7_Witness ==
  /\ last.op = "deleteDecision"
  /\ last.id \in IdsOf(last.pre.decisions)
  /\ \E i \in DOMAIN last.pre.references : last.pre.references[i].decision_id = last.id
  /\ \E kind \in ItemKinds :
       \E i \in DOMAIN ItemsOf(last.pre, kind) :
         ItemsOf(last.pre, kind)[i].decision_id \notin {last.id, undefined}

(***************************************************************************)
(* Claims on the active option.                                            *)
(***************************************************************************)
Eligible(option) == option.status \in {"considering", "selected"}

\* the first option of the list that is considering or selected, if any
firstEligible(options) ==
  LET k == FindIndex(options, Eligible)
  IN IF k = 0 THEN undefined ELSE options[k].id

\* C2: in every reachable state active_option_id is unset or is the id of
\* an option of the canvas whose status is considering or selected.
C2_ActiveOptionEligible ==
  \/ canvas.active_option_id = undefined
  \/ \E i \in DOMAIN canvas.options :
       /\ canvas.options[i].id = canvas.active_option_id
       /\ Eligible(canvas.options[i])

\* the active option of the state before the operation went from not
\* rejected to rejected
ActiveGotRejected ==
  \E i \in DOMAIN last.pre.options :
    /\ last.pre.options[i].id = last.pre.active_option_id
    /\ last.pre.options[i].status # "rejected"
    /\ \E j \in DOMAIN canvas.options :
         /\ canvas.options[j].id = last.pre.active_option_id
         /\ canvas.options[j].status = "rejected"

\* C5: when rejectOption, cycleOptionStatus or applyExtract turns the
\* active option rejected, active_option_id becomes the id of another
\* option that is considering or selected when there is one and unset when
\* there is none; it is never left on the rejected option.
C5_RejectedActiveIsReplaced ==
  (last.op \in {"rejectOption", "cycleOptionStatus", "applyExtract"} /\ ActiveGotRejected) =>
    IF \E i \in DOMAIN canvas.options : Eligible(canvas.options[i])
      THEN \E i \in DOMAIN canvas.options :
             /\ Eligible(canvas.options[i])
             /\ canvas.options[i].id = canvas.active_option_id
      ELSE canvas.active_option_id = undefined

\* C8: after deleteOption of the active option active_option_id is the
\* first remaining option, in list order, that is considering or selected,
\* or unset when there is none, and never the deleted id; after deleteOption
\* of another option active_option_id is what it was.
C8_DeleteOptionFallsBack ==
  last.op = "deleteOption" =>
    IF last.pre.active_option_id = last.id
      THEN /\ canvas.active_option_id = firstEligible(canvas.options)
           /\ canvas.active_option_id # last.id
      ELSE canvas.active_option_id = last.pre.active_option_id

(***************************************************************************)
(* Claims on the merge.                                                    *)
(***************************************************************************)
\* C3: an applyExtract that fails on an array field it cannot iterate,
\* after earlier steps have created items, commits nothing: the canvas is
\* exactly the canvas before the call, with no item of the earlier steps.
C3_FailedMergeCommitsNothing ==
  (last.op = "applyExtract" /\ last.threw) => canvas = last.pre

\* C3 happens: the merge failed after its earlier steps had created items
C3_Witness ==
  /\ last.op = "applyExtract"
  /\ last.threw
  /\ Entities(applyExtractDraft(last.pre, last.extract).canvas) > Entities(last.pre)

\* C4: applyExtract of the empty extract leaves the canvas as it was, also
\* when active_option_id was unset while options exist.
C4_EmptyExtractChangesNothing ==
  (last.op = "applyExtract" /\ last.extract = createEmptyExtract) =>
    canvas = last.pre

\* the items of the second list that the first list did not have
Created(before, after) == {k \in DOMAIN after : k > Len(before)}

\* the items the call found are kept in place, each item it created bears a
\* proposed text that duplicates no item before it in the list, and each
\* proposed text is in the list or duplicates an item of it
MergedWithoutDuplicates(before, after, field, proposed) ==
  /\ Len(after) >= Len(before)
  /\ \A k \in DOMAIN before :
       after[k].id = before[k].id /\ after[k][field] = before[k][field]
  /\ \A k \in Created(before, after) :
       /\ \E i \in DOMAIN proposed : proposed[i] = after[k][field]
       /\ \A j \in 1..(k - 1) : ~isNearDuplicate(after[j][field], after[k][field])
  /\ \A i \in DOMAIN proposed :
       \E k \in DOMAIN after :
         after[k][field] = proposed[i] \/ isNearDuplicate(after[k][field], proposed[i])

TextsOf(proposed, field) == [i \in DOMAIN proposed |-> proposed[i][field]]

\* C9: applyExtract creates a proposed option, decision, constraint or
\* question only if it is no near-duplicate of an item of its kind that is
\* in the canvas at that moment, the items the same call created earlier
\* included; two near-duplicate new_options on a canvas without options
\* leave one option, the first of the extract.  The references are as they
\* were.
C9_MergeSkipsNearDuplicates ==
  (last.op = "applyExtract" /\ ~last.threw) =>
    /\ MergedWithoutDuplicates(last.pre.options, canvas.options, "title",
                               TextsOf(last.extract.new_options, "title"))
    /\ MergedWithoutDuplicates(last.pre.decisions, canvas.decisions, "title",
                               TextsOf(last.extract.new_decisions, "title"))
    /\ MergedWithoutDuplicates(last.pre.constraints, canvas.constraints, "description",
                               TextsOf(last.extract.new_constraints, "description"))
    /\ MergedWithoutDuplicates(last.pre.open_questions, canvas.open_questions, "question",
                               TextsOf(last.extract.new_open_questions, "question"))
    /\ (/\ last.pre.options = <<>>
        /\ Len(last.extract.new_options) = 2
        /\ isNearDuplicate(last.extract.new_options[1].title,
                           last.extract.new_options[2].title))
         => (/\ Len(canvas.options) = 1
             /\ canvas.options[1].title = last.extract.new_options[1].title)
    /\ canvas.references = last.pre.references

\* C9 happens: two near-duplicate options were proposed to a canvas without
\* options and the call created the first only
C9_Witness ==
  /\ last.op = "applyExtract"
  /\ ~last.threw
  /\ last.pre.options = <<>>
  /\ Len(last.extract.new_options) = 2
  /\ isNearDuplicate(last.extract.new_options[1].title, last.extract.new_options[2].title)
  /\ last.extract.new_options[1].title # last.extract.new_options[2].title
  /\ Len(canvas.options) = 1

(***************************************************************************)
(* Claims on streaming.                                                    *)
(***************************************************************************)
\* the reply up to its extract block
VisiblePart(reply) ==
  IF indexOfStartTag(reply) = 0 THEN reply
  ELSE SubSeq(reply, 1, indexOfStartTag(reply) - 1)

\* C10: each text handed to the progress callback holds no part of the
\* extract block: no character of the start tag, also when the tag arrives
\* cut across two fragments, and nothing after it; the text is a prefix of
\* the reply's part before the block.
C10_ProgressHidesExtractBlock ==
  stream.called =>
    /\ Len(stream.shown) <= Len(VisiblePart(stream.reply))
    /\ stream.shown = SubSeq(VisiblePart(stream.reply), 1, Len(stream.shown))

\* the text of every text_delta event a body carries, in order
textCarried(body) == textOfLines(splitLines(body))

\* C11: when the stream is complete the text, extract, parse_error and
\* raw_extract returned are parseAssistantExtract of the texts of all the
\* text_delta events the body carried, in order, however the body was cut
\* into chunks and also when its last event line ends without a newline.
C11_ResultIsParseOfAllDeltas ==
  wire.phase = "done" =>
    wire.result = parseAssistantExtract(textCarried(wire.body))

\* the item of the list that bears the id has the link in the field
LinkedTo(items, id, field, target) ==
  \E i \in DOMAIN items : items[i].id = id /\ items[i][field] = target

\* C12: linkToDecision, and updateDecision with an option_id, set the link
\* when the decision or option they name is in the canvas they are applied
\* to, and leave the canvas as it was when it is not.
C12_LinkRevalidatesTarget ==
  /\ last.op = "linkToDecision" =>
       IF last.id2 \in IdsOf(last.pre.decisions)
         THEN LinkedTo(ItemsOf(canvas, last.kind), last.id, "decision_id", last.id2)
         ELSE canvas = last.pre
  /\ (last.op = "updateDecision" /\ last.id2 # undefined) =>
       IF last.id2 \in IdsOf(last.pre.options)
         THEN LinkedTo(canvas.decisions, last.id, "option_id", last.id2)
         ELSE canvas = last.pre

(***************************************************************************)
(* Claims on the telemetry.                                                *)
(***************************************************************************)
\* C15: extraction_failure_log never holds more than 30 entries and holds
\* them newest first; an applyExtract whose telemetry carries a parse error
\* adds one to extraction_failures and puts its entry first, the oldest
\* entry leaving when there were 30; one that carries none changes neither.
C15_FailureLogKeepsNewestThirty ==
  /\ Len(space.extraction_failure_log) <= 30
  /\ \A i, j \in DOMAIN space.extraction_failure_log :
       i < j => space.extraction_failure_log[i].at > space.extraction_failure_log[j].at
  /\ last.op = "applyExtract" =>
       IF last.telemetry.parse_error # null
         THEN /\ space.extraction_failures = last.space.extraction_failures + 1
              /\ Len(space.extraction_failure_log) =
                   Min2(30, Len(last.space.extraction_failure_log) + 1)
              /\ space.extraction_failure_log[1].reason = last.telemetry.parse_error
              /\ \A i \in 2..Len(space.extraction_failure_log) :
                   space.extraction_failure_log[i] = last.space.extraction_failure_log[i - 1]
         ELSE /\ space.extraction_failures = last.space.extraction_failures
              /\ space.extraction_failure_log = last.space.extraction_failure_log

\* C15 happens: a failure arrived when the log held 30
C15_Witness ==
  /\ last.op = "applyExtract"
  /\ last.telemetry.parse_error # null
  /\ Len(last.space.extraction_failure_log) = 30
  /\ space.extraction_failures = 31

(***************************************************************************)
(* Claims on the requests.                                                 *)
(***************************************************************************)
\* the canvas and the telemetry of the space are what they were before the
\* step
StepKeptCanvasAndTelemetry ==
  /\ canvas = hook.step.canvas
  /\ space.usage_history = hook.step.space.usage_history
  /\ space.extraction_failures = hook.step.space.extraction_failures
  /\ space.extraction_failure_log = hook.step.space.extraction_failure_log

\* C13: a request that fails, before or after fragments were shown, leaves
\* design_canvas, usage_history, extraction_failures and
\* extraction_failure_log as they were: starting it from send or retry and
\* showing its fragments change none of them, and its failure changes none of them and
\* changes of the conversation only the content of its assistant message,
\* to a text that begins with "[Request failed]".
C13_FailedRequestChangesOnlyMessage ==
  /\ hook.step.op \in {"send", "retryLastFailed", "onTextDelta", "failed"}
       => StepKeptCanvasAndTelemetry
  /\ hook.step.op = "failed" =>
       /\ Len(space.conversation) = Len(hook.step.space.conversation)
       /\ \A i \in DOMAIN space.conversation :
            LET before == hook.step.space.conversation[i]
                after == space.conversation[i]
            IN /\ after.id = before.id
               /\ after.role = before.role
               /\ IF after.id = hook.step.messageId
                    THEN startsWith(after.content, trimEnd(tRequestFailed))
                    ELSE after.content = before.content

\* C13 happens: a request failed after a fragment of it was shown
C13_Witness ==
  /\ hook.step.op = "failed"
  /\ \E i \in DOMAIN space.conversation :
       /\ space.conversation[i].id = hook.step.messageId
       /\ hook.step.space.conversation[i].content = tHi
       /\ startsWith(space.conversation[i].content, tRequestFailed)

\* C14: at most one request is in flight at any time; while isSending the
\* Send button, Enter, Retry and Regenerate start no second one.
C14_OneRequestInFlight ==
  Len(hook.inFlight) <= 1

(***************************************************************************)
(* Claims on export and import.                                            *)
(***************************************************************************)
Collections == {"options", "decisions", "constraints", "open_questions", "references"}

\* the items as the program reads them: a link that is not there is
\* undefined
WithLink(items, link) ==
  [i \in DOMAIN items |->
     [f \in DOMAIN items[i] \cup {link} |-> get(items[i], f)]]

\* C16: a canvas reached through store operations comes back from
\* importSpacesPayload(exportSpacesPayload(...)) with the same entities, the
\* same option_id and decision_id links and the same active_option_id, also
\* when active_option_id was cleared while options exist.
C16_ExportImportRoundTrip ==
  transfer.phase = "exported" =>
    /\ ~transfer.imported.threw
    /\ LET read == transfer.imported.spaces[1].design_canvas
       IN /\ read.options = canvas.options
          /\ WithLink(read.decisions, "option_id") = canvas.decisions
          /\ WithLink(read.constraints, "decision_id") = canvas.constraints
          /\ WithLink(read.open_questions, "decision_id") = canvas.open_questions
          /\ WithLink(read.references, "decision_id") = canvas.references
          /\ get(read, "active_option_id") = canvas.active_option_id

\* C17: importSpacesPayload of a JSON document fails exactly when spaces is
\* missing, is no array or is empty; a document with a non-empty spaces
\* array is accepted whatever its spaces lack.
C17_ImportFailsOnlyOnSpaces ==
  transfer.phase # "idle" =>
    (transfer.imported.threw <=>
       (~isArray(transfer.document, "spaces") \/ Len(transfer.document.spaces) = 0))

\* C18: after an import that succeeds every collection of every canvas is
\* an array, and active_option_id is unset or the id of an option of the
\* canvas.
C18_ImportedCanvasIsWellFormed ==
  (transfer.phase # "idle" /\ ~transfer.imported.threw) =>
    \A i \in DOMAIN transfer.store.spaces :
      LET read == transfer.store.spaces[i].design_canvas
      IN /\ \A collection \in Collections : isArray(read, collection)
         /\ \/ get(read, "active_option_id") = undefined
            \/ /\ isArray(read, "options")
               /\ get(read, "active_option_id") \in IdsOf(read.options)

(***************************************************************************)
(* Claims on parseAssistantExtract.                                        *)
(***************************************************************************)
\* JSON.parse reads the text
Deserializes(text) == ~JSONparse(text).threw

\* the fields of an extract
ExtractFields == DOMAIN createEmptyExtract

ResultFields == {"text", "extract", "parse_error", "raw_extract"}

\* the fields the payload gives null where an array is due
GivenNull(payload) ==
  IF "notIterable" \in DOMAIN payload THEN payload.notIterable ELSE {}

C20_ParseFailureIsCaptured ==
  parser.phase = "returned" =>
    /\ DOMAIN parser.result = ResultFields
    /\ (parser.closed /\ ~Deserializes(parser.interior)) =>
         /\ parser.result.extract = createEmptyExtract
         /\ parser.result.parse_error # null
         /\ parser.result.text = trim(parser.before \o parser.after)
         /\ parser.result.raw_extract = parser.interior

C20_Witness ==
  /\ parser.phase = "returned"
  /\ parser.before = tAnswer
  /\ parser.interior = tOops
  /\ parser.closed
  /\ parser.result.parse_error = tSyntaxError
  /\ parser.result.raw_extract = tOops

(***************************************************************************)
(* Claims on stripExtractTail.                                             *)
(***************************************************************************)
\* t is u with the white space at its end removed
IsTrimEndOf(t, u) ==
  /\ Len(t) <= Len(u)
  /\ t = SubSeq(u, 1, Len(t))
  /\ \A i \in (Len(t) + 1)..Len(u) : u[i] \in SpaceChars
  /\ Len(t) > 0 => t[Len(t)] \notin SpaceChars

\* C21: stripExtractTail(raw) is what precedes the first start tag of raw,
\* in either letter case, with the white space at its end removed, whether
\* the tag is closed or not; for a raw without start tag it is raw with the
\* white space at its end removed.
C21_StripKeepsWhatPrecedesTheTag ==
  parser.phase = "stripped" =>
    IsTrimEndOf(parser.result,
                IF parser.open # <<>> THEN parser.before ELSE parser.raw)

C21_Witness ==
  /\ parser.phase = "stripped"
  /\ parser.open = tStartTagCapitals
  /\ ~parser.closed
  /\ parser.before = tAnswer
  /\ parser.result = SubSeq(tAnswer, 1, Len(tAnswer) - 1)

(***************************************************************************)
(* Claims on the empty extract and on isNearDuplicate.                     *)
(***************************************************************************)
\* the array fields of the extract format (types/design.ts DesignExtract)
ArrayFields ==
  {"new_options", "update_options", "option_status_changes", "new_decisions",
   "update_decisions", "new_constraints", "update_constraints",
   "new_open_questions", "resolved_questions", "finish_branches",
   "delete_decisions", "delete_constraints", "delete_open_questions",
   "set_branch_todos"}

\* C22: the extract the parser returns when it finds no tags or the
\* interior does not parse has every array field of the extract format,
\* empty, and problem_statement_update null.
C22_EmptyExtractHasEveryField ==
  (/\ parser.phase = "returned"
   /\ ~(parser.closed /\ Deserializes(parser.interior))) =>
    /\ \A f \in ArrayFields :
         f \in DOMAIN parser.result.extract /\ parser.result.extract[f] = <<>>
    /\ parser.result.extract.problem_statement_update = null

\* the words of a phrase that tokenSet keeps
WordsOf(t) == Range(tokensOf(t))

\* none of isNearDuplicate's short cuts applies: the canonical forms differ
\* and neither they nor the compacted forms contain one another
NoShortCut(a, b) ==
  LET aCanon == canonicalize(a)
      bCanon == canonicalize(b)
  IN /\ aCanon # bCanon
     /\ ~includes(aCanon, bCanon)
     /\ ~includes(bCanon, aCanon)
     /\ ~includes(compact(aCanon), compact(bCanon))
     /\ ~includes(compact(bCanon), compact(aCanon))

\* C23: isNearDuplicate("Use Redis Pub/Sub", "Redis pubsub approach") is
\* true, isNearDuplicate("Use WebSockets", "Use Kafka") is false, and two
\* phrases that share one token only and are not contained in one another
\* are no near-duplicates.
C23_OneSharedTokenIsNoDuplicate ==
  compared.phase = "returned" =>
    /\ (compared.a = tUseRedisPubSub /\ compared.b = tRedisPubsubApproach)
         => compared.result
    /\ (compared.a = tUseWebSockets /\ compared.b = tUseKafka)
         => ~compared.result
    /\ (/\ Cardinality(WordsOf(compared.a) \cap WordsOf(compared.b)) = 1
        /\ Cardinality(tokenSet(compared.a) \cap tokenSet(compared.b)) = 1
        /\ NoShortCut(compared.a, compared.b))
         => ~compared.result

\* C24: where no short cut applies isNearDuplicate(a, b) is true exactly
\* when the phrases share two words or more and the shared words are 0.4 or
\* more of the smaller token set, or the Jaccard score of the token sets
\* (words and pairs of neighbours) is 0.72 or more; and it is true when the
\* canonical forms are equal.
C24_OverlapRuleDecides ==
  compared.phase = "returned" =>
    LET a == compared.a
        b == compared.b
        shared == Cardinality(WordsOf(a) \cap WordsOf(b))
        minSize == Min2(Cardinality(tokenSet(a)), Cardinality(tokenSet(b)))
        union == Cardinality(tokenSet(a) \cup tokenSet(b))
        jaccard100 == 100 * Cardinality(tokenSet(a) \cap tokenSet(b))
    IN /\ NoShortCut(a, b) =>
            (compared.result <=>
               \/ (shared >= 2 /\ minSize > 0 /\ 10 * shared >= 4 * minSize)
               \/ (union > 0 /\ jaccard100 >= 72 * union))
       /\ canonicalize(a) = canonicalize(b) => compared.result

(***************************************************************************)
(* Claims on the decision a created item is attached to.                   *)
(***************************************************************************)
\* the decision the item is to be attached to: the last decision of the
\* active option, else the last decision, else none
ClaimedTarget(c) ==
  LET own == {i \in DOMAIN c.decisions :
                /\ c.active_option_id # undefined
                /\ c.decisions[i].option_id = c.active_option_id}
  IN IF own # {}
       THEN c.decisions[CHOOSE i \in own : \A j \in own : j <= i].id
     ELSE IF Len(c.decisions) > 0 THEN c.decisions[Len(c.decisions)].id
     ELSE undefined

\* the collection an add operation appends to
CollectionOf(op) ==
  IF op = "addConstraint" THEN "constraints"
  ELSE IF op = "addQuestion" THEN "open_questions"
  ELSE "references"

\* C25: a constraint, open question or reference that is created is
\* attached to the last decision of the active option if there is one, else
\* to the last decision of the list, also when no option is active, else to
\* none.
C25_CreatedItemAttachesToLastDecision ==
  last.op \in {"addConstraint", "addQuestion", "addReference"} =>
    LET items == canvas[CollectionOf(last.op)]
    IN items[Len(items)].decision_id = ClaimedTarget(last.pre)

(***************************************************************************)
(* Claims on applyExtract on the whole space.                              *)
(***************************************************************************)
\* the items of the collection that the last applyExtract created
CreatedIn(collection) ==
  SelectSeq(merged.space.design_canvas[collection],
            LAMBDA item : item.id \notin IdsOf(merged.pre.design_canvas[collection]))

\* the text after the update entries that name id with a text that is not
\* blank were appended to it, in their order
RECURSIVE TextAfter(_, _, _, _)
TextAfter(text, updates, id, field) ==
  IF Len(updates) = 0 THEN text
  ELSE LET upd == Head(updates)
           new == trim(upd[field])
       IN TextAfter(IF upd.id = id /\ Len(new) > 0
                      THEN (IF Len(text) = 0 THEN new ELSE text \o <<"\n">> \o new)
                      ELSE text,
                    Tail(updates), id, field)

IsPrefix(t, u) == Len(t) <= Len(u) /\ t = SubSeq(u, 1, Len(t))

C27_ChangedOptionsNameTheMessage ==
  merged.op = "applyExtract" =>
    LET before == merged.pre.design_canvas.options
        after == merged.space.design_canvas.options
    IN /\ \A i \in DOMAIN before :
            IsPrefix(before[i].source_messages, after[i].source_messages)
       /\ \A i \in DOMAIN after :
            (\/ i > Len(before)
             \/ after[i].description # before[i].description
             \/ after[i].status # before[i].status)
              => merged.messageId \in Range(after[i].source_messages)

\* the references of the items: their type and id
RefsOf(items, type) ==
  [i \in DOMAIN items |-> [type |-> type, id |-> items[i].id]]

\* C28: after applyExtract(messageId, extract) the message with that id has
\* as extracted_elements the typed references of the items the call created,
\* in the order of creation; duplicates that were skipped add nothing, every
\* id listed is an entity of its type in the canvas, and the
\* extracted_elements of the other messages are as before.
C28_ExtractedElementsAreTheCreatedItems ==
  merged.op = "applyExtract" =>
    \A i \in DOMAIN merged.space.conversation :
      LET message == merged.space.conversation[i]
      IN IF message.id = merged.messageId
           THEN message.extracted_elements =
                  RefsOf(CreatedIn("options"), "option")
                    \o RefsOf(CreatedIn("decisions"), "decision")
                    \o RefsOf(CreatedIn("constraints"), "constraint")
                    \o RefsOf(CreatedIn("open_questions"), "open_question")
           ELSE message = merged.pre.conversation[i]

C28_Witness ==
  /\ merged.op = "applyExtract"
  /\ Len(merged.extract.new_options) = 2
  /\ Len(merged.space.conversation) = 2
  /\ merged.messageId = "m2"
  /\ merged.space.conversation[1].extracted_elements # <<>>
  /\ Len(merged.space.conversation[2].extracted_elements) = 1

\* the option a status change finds: the first whose title is a
\* near-duplicate of option_title, 0 when there is none
TargetOf(change) ==
  FindIndex(merged.space.design_canvas.options,
            LAMBDA item : <<item.title, change.option_title>> \in nearDuplicates)

\* C30: within one applyExtract each step sees what the earlier steps made:
\* a status change reaches an option the call created, a decision created
\* in a call that selects option B has option_id = B, a constraint or
\* question created in the call is attached to a decision created in the
\* call, and a question the call adds and resolves (it is the first
\* question a resolved_questions entry is a near-duplicate of) ends resolved.
C30_LaterStepsSeeEarlierOnes ==
  merged.op = "applyExtract" =>
    LET after == merged.space.design_canvas
        changes == merged.extract.option_status_changes
        selecting == {k \in DOMAIN changes :
                        changes[k].new_status = "selected" /\ TargetOf(changes[k]) # 0}
        createdDecisions == CreatedIn("decisions")
    IN /\ \A i \in DOMAIN after.options :
            LET reaching == {k \in DOMAIN changes : TargetOf(changes[k]) = i}
            IN (i > Len(merged.pre.design_canvas.options) /\ reaching # {}) =>
                 after.options[i].status =
                   changes[CHOOSE k \in reaching : \A m \in reaching : m <= k].new_status
       /\ selecting # {} =>
            \A i \in DOMAIN createdDecisions :
              createdDecisions[i].option_id =
                after.options[TargetOf(changes[CHOOSE k \in selecting :
                                                 \A m \in selecting : m <= k])].id
       /\ createdDecisions # <<>> =>
            /\ \A i \in DOMAIN CreatedIn("constraints") :
                 CreatedIn("constraints")[i].decision_id \in IdsOf(createdDecisions)
            /\ \A i \in DOMAIN CreatedIn("open_questions") :
                 CreatedIn("open_questions")[i].decision_id \in IdsOf(createdDecisions)
       /\ \A i \in DOMAIN after.open_questions :
            (/\ i > Len(merged.pre.design_canvas.open_questions)
             /\ \E k \in DOMAIN merged.extract.resolved_questions :
                  FindIndex(after.open_questions,
                            LAMBDA item :
                              <<item.question,
                                merged.extract.resolved_questions[k].question>>
                                \in nearDuplicates) = i)
              => after.open_questions[i].status = "resolved"

C30_Witness ==
  /\ merged.op = "applyExtract"
  /\ Len(merged.pre.design_canvas.options) = 1
  /\ merged.pre.design_canvas.active_option_id = merged.pre.design_canvas.options[1].id
  /\ Len(merged.space.design_canvas.options) = 2
  /\ merged.space.design_canvas.options[2].status = "selected"
  /\ Len(merged.space.design_canvas.decisions) = 1
  /\ merged.space.design_canvas.decisions[1].option_id
       = merged.space.design_canvas.options[2].id
  /\ merged.space.design_canvas.constraints[1].decision_id
       = merged.space.design_canvas.decisions[1].id
  /\ merged.space.design_canvas.open_questions[1].status = "resolved"

(***************************************************************************)
(* Claims on the order of the collections.                                 *)
(***************************************************************************)
\* the collection a reorder or move operation works on
ReorderedCollection ==
  IF last.op \in {"reorderOption", "moveOption"} THEN "options"
  ELSE IF last.op \in {"reorderDecision", "moveDecision"} THEN "decisions"
  ELSE IF last.kind = "constraint" THEN "constraints"
  ELSE IF last.kind = "question" THEN "open_questions"
  ELSE "references"

\* the entities of the collection that the last operation kept are in the
\* order they had, and the ones it created come after them
KeptOrder(collection) ==
  LET before == SeqIds(last.pre[collection])
      after == SeqIds(canvas[collection])
      surviving == SelectSeq(before, LAMBDA id : id \in Range(after))
  IN /\ IsPrefix(surviving, after)
     /\ \A i \in DOMAIN after : i > Len(surviving) => after[i] \notin Range(before)

\* C29: a store operation other than reorder* and move* leaves the entities
\* that survive it in their relative order in every collection of the canvas
\* and puts the entities it creates at the end of their collection; reorder*
\* and move* change the order of one collection and nothing else.
C29_OrderChangesOnlyOnRequest ==
  IF last.op \in ReorderOps
    THEN \A collection \in Collections :
           IF collection = ReorderedCollection
             THEN /\ Len(canvas[collection]) = Len(last.pre[collection])
                  /\ Range(canvas[collection]) = Range(last.pre[collection])
             ELSE canvas[collection] = last.pre[collection]
    ELSE \A collection \in Collections : KeptOrder(collection)

C29_Witness ==
  /\ last.op = "deleteOption"
  /\ Len(last.pre.options) = 3
  /\ SeqIds(canvas.options) = <<last.pre.options[1].id, last.pre.options[3].id>>

(***************************************************************************)
(* Claims on reopenDecision.                                               *)
(***************************************************************************)
\* C31: reopenDecision(D) on a decision of the canvas removes D, appends a
\* considering option with D's title, makes that option active, and cleans
\* up as a delete does: afterwards no constraint, open question or
\* reference has decision_id = D.id.
C31_ReopenCleansUpLikeDelete ==
  (last.op = "reopenDecision" /\ last.id \in IdsOf(last.pre.decisions)) =>
    LET k == FindIndex(last.pre.decisions, LAMBDA item : item.id = last.id)
        option == canvas.options[Len(canvas.options)]
    IN /\ last.id \notin IdsOf(canvas.decisions)
       /\ Len(canvas.options) = Len(last.pre.options) + 1
       /\ option.title = last.pre.decisions[k].title
       /\ option.status = "considering"
       /\ canvas.active_option_id = option.id
       /\ \A kind \in ItemKinds :
            \A i \in DOMAIN ItemsOf(canvas, kind) :
              ItemsOf(canvas, kind)[i].decision_id # last.id

(***************************************************************************)
(* Claims on the events of the stream.                                     *)
(***************************************************************************)
\* C32: a line of the stream that is no JSON is skipped and does not end
\* the stream: the text_delta events after it add their text and the call
\* returns a result; a response status that is no success makes the call
\* throw before any progress notification.
C32_MalformedLineIsSkipped ==
  /\ (wire.phase = "done" /\ wire.body \in MalformedBodies) =>
       /\ wire.rawAssistantText = tHi \o tBang
       /\ wire.notified = 2
       /\ wire.result = parseAssistantExtract(tHi \o tBang)
       /\ ~wire.threw
  /\ wire.phase = "reading" => wire.ok /\ ~wire.threw
  /\ ~wire.ok =>
       /\ wire.phase = "failed"
       /\ wire.threw
       /\ wire.notified = 0
       /\ wire.rawAssistantText = <<>>

C32_Witness ==
  /\ wire.phase = "done"
  /\ wire.chunks = MaxChunks
  /\ startsWith(wire.body, bodyOf(<<tHi>>, newline \o newline) \o tData \o <<" ">> \o tOops)
  /\ wire.result.text = tHi \o tBang

(***************************************************************************)
(* Claims on retry.                                                        *)
(***************************************************************************)
\* the message of the conversation with the id, as a sequence of none or one
MessageOf(conversation, messageId) ==
  SelectSeq(conversation, LAMBDA message : message.id = messageId)

\* C33: a request that failed is kept as lastFailedRequest with its
\* conversation, its assistant message id and its space, and is not started
\* again by the failure; retryLastFailed starts a request with that
\* conversation, message id and space and adds no message; when a request
\* returns, its message no longer holds the error placeholder and
\* lastFailedRequest is cleared.
C33_RetryReplaysTheFailedRequest ==
  /\ hook.step.op = "failed" =>
       /\ hook.lastFailedRequest = hook.step.request
       /\ \A i \in DOMAIN hook.inFlight :
            ArgumentsOf(hook.inFlight[i]) # hook.step.request
  /\ hook.step.op = "retryLastFailed" =>
       /\ hook.step.request = hook.lastFailedRequest
       /\ hook.step.request # NoRequest
       /\ hook.step.request.spaceId = theSpaceId
       /\ ArgumentsOf(hook.inFlight[Len(hook.inFlight)]) = hook.step.request
       /\ space = hook.step.space
       /\ canvas = hook.step.canvas
  /\ hook.step.op = "returned" =>
       /\ hook.lastFailedRequest = NoRequest
       /\ \A i \in DOMAIN space.conversation :
            space.conversation[i].id = hook.step.messageId
              => ~startsWith(space.conversation[i].content, trimEnd(tRequestFailed))

\* C33 happens: a retried request returned and its text replaced the
\* placeholder of the failure
C33_Witness ==
  /\ hook.step.op = "returned"
  /\ MessageOf(hook.step.space.conversation, hook.step.messageId) # <<>>
  /\ startsWith(MessageOf(hook.step.space.conversation, hook.step.messageId)[1].content,
                tRequestFailed)
  /\ MessageOf(space.conversation, hook.step.messageId)[1].content = trimEnd(tAnswer)
  /\ Len(hook.step.request.conversation) = 1

(***************************************************************************)
(* Claims on parseCrystallize.                                             *)
(***************************************************************************)
\* the interiors that are JSON objects with a design_doc text and tasks, and
\* the number of tasks they list
ResultObjects ==
  <<[text |-> tDocOnly, design_doc |-> tDoc, tasks |-> 0],
    [text |-> tTestOutput, design_doc |-> tDoc, tasks |-> 1],
    [text |-> tTitleOnly, design_doc |-> tDoc, tasks |-> 1],
    [text |-> tEmptyObject, design_doc |-> <<>>, tasks |-> 0]>>

\* the interiors that are no JSON, or JSON that is no object
NoResultObjects == {tOops, <<>>, tNull, tFive, tEmptyArray}

\* C34: parseCrystallize returns for every input: without a tag pair the
\* trimmed input and no tasks; with a tag pair whose interior is no
\* well-formed result object the input without the block and no tasks;
\* with a well-formed interior the design_doc and one task for each task
\* listed, the list fields of a task empty when it gives none.
C34_CrystallizeFallsBackToTheText ==
  parser.phase = "crystallized" =>
    /\ DOMAIN parser.result = {"design_doc", "tasks"}
    /\ ~parser.closed =>
         parser.result = [design_doc |-> trim(parser.raw), tasks |-> <<>>]
    /\ (parser.closed /\ parser.interior \in NoResultObjects) =>
         parser.result = [design_doc |-> trim(parser.before \o parser.after),
                          tasks |-> <<>>]
    /\ \A k \in DOMAIN ResultObjects :
         (parser.closed /\ parser.interior = ResultObjects[k].text) =>
           /\ parser.result.design_doc = ResultObjects[k].design_doc
           /\ Len(parser.result.tasks) = ResultObjects[k].tasks
           /\ \A i \in DOMAIN parser.result.tasks :
                /\ parser.result.tasks[i].title = tTaskA
                /\ parser.interior = tTitleOnly =>
                     /\ parser.result.tasks[i].files_components = <<>>
                     /\ parser.result.tasks[i].acceptance_criteria = <<>>
                     /\ parser.result.tasks[i].depends_on = <<>>
                     /\ parser.result.tasks[i].related_decisions = <<>>

(***************************************************************************)
(* Claims on requests in flight.                                           *)
(***************************************************************************)
\* the cards of `before` are the first cards of `after`, in their places,
\* with their ids and what they say
StillThere(before, after) ==
  /\ Len(before) <= Len(after)
  /\ \A i \in DOMAIN before :
       \A field \in DOMAIN before[i] \ {"status"} : after[i][field] = before[i][field]

\* a request has just returned and its extract is in the canvas
ExtractApplied ==
  /\ hook.step.op = "returned"
  /\ last.op = "applyExtract"

\* C35: when a request returns, its extract is merged into the canvas of
\* that moment, not into the canvas the request was sent with: every card
\* of the canvas before the return is in the canvas after it, in its place,
\* and the canvas after it is the merge of the extract into the canvas
\* before it.
C35_NoLostUpdate ==
  ExtractApplied =>
    /\ \A collection \in Collections :
         StillThere(last.pre[collection], canvas[collection])
    /\ canvas = applyExtract(last.pre, last.extract)

\* C35 happens: a card was added by hand while the request was in flight,
\* the extract of the request brought another one, and both are there
C35_Witness ==
  /\ ExtractApplied
  /\ Entities(hook.step.canvasSnapshot) < Entities(last.pre)
  /\ Entities(last.pre) < Entities(canvas)
  /\ \E i \in DOMAIN canvas.decisions : canvas.decisions[i].title = tNewDecision
  /\ hook.step.canvasSnapshot.decisions = <<>>

\* C36: isSending is true exactly while a request that send, retryLastFailed
\* or regenerate started has not completed: the completion of one request
\* does not set it to false while another one is in flight.
C36_IsSendingWhileInFlight ==
  hook.isSending <=> InFlight

(***************************************************************************)
(* Claims on the text a stream ends with.                                  *)
(***************************************************************************)
\* the reply opened an extract block and ended before the block was closed
Truncated(reply) ==
  /\ indexOfStartTag(reply) # 0
  /\ indexOfFrom(reply, endTag, indexOfStartTag(reply)) = 0

\* C37: the text a completed stream returns, which becomes the content of
\* the assistant message, shows nothing of the extract block the progress
\* texts hid: for a reply whose block was opened and never closed it holds
\* neither the start tag nor what came after it, and it is the last text
\* handed to the progress callback.
C37_FinalTextHidesTruncatedBlock ==
  (stream.phase = "done" /\ Truncated(stream.reply)) =>
    /\ indexOfStartTag(stream.text) = 0
    /\ stream.text = stream.shown

(***************************************************************************)
(* Claims on the store's list of spaces.                                   *)
(***************************************************************************)
\* the ids of the spaces, in the order of the list
SpaceIdsOf(spaces) == [i \in DOMAIN spaces |-> spaces[i].id]

\* the list has a space with the id
HasSpace(spaces, id) == \E i \in DOMAIN spaces : spaces[i].id = id

\* C38: the list of spaces is never empty and activeSpaceId is the id of a
\* space of the list; deleteSpace of the only space leaves one new empty
\* space, which is active; deleteSpace of the active space makes the first
\* space that remains active, and of another space keeps the active one;
\* replaceSpaces makes the given id active when the list has it and the
\* first space of the list otherwise, the list being one new space when the
\* given list is empty.
C38_ActiveSpaceIsInTheList ==
  /\ Len(store.spaces) > 0
  /\ HasSpace(store.spaces, store.activeSpaceId)
  /\ store.op = "deleteSpace" =>
       LET remaining == SelectSeq(store.pre.spaces, LAMBDA sp : sp.id # store.id)
       IN IF remaining = <<>>
            THEN /\ Len(store.spaces) = 1
                 /\ store.spaces[1].design_canvas = createEmptyCanvas
                 /\ store.activeSpaceId = store.spaces[1].id
            ELSE /\ store.spaces = remaining
                 /\ store.activeSpaceId =
                      IF store.pre.activeSpaceId = store.id THEN remaining[1].id
                      ELSE store.pre.activeSpaceId
  /\ store.op = "replaceSpaces" =>
       store.activeSpaceId = IF HasSpace(store.spaces, store.id) THEN store.id
                             ELSE store.spaces[1].id
  /\ store.op \in {"createSpace", "createSampleSpace"} =>
       /\ store.activeSpaceId = store.spaces[1].id
       /\ ~HasSpace(store.pre.spaces, store.activeSpaceId)

\* C38 happens: the only space, one with an option on its canvas, was
\* deleted and a new empty space is there and active
C38_Witness ==
  /\ store.op = "deleteSpace"
  /\ Len(store.pre.spaces) = 1
  /\ store.pre.spaces[1].id = store.id
  /\ store.pre.spaces[1].design_canvas.options # <<>>
  /\ store.spaces[1].design_canvas = createEmptyCanvas

\* the operations of the model that name a space
SpaceOps == {"updateSpaceTitle", "setProblemStatement", "addOption"}

\* C39: an operation that names a space leaves every space of another id
\* as it was, and the order of the list and activeSpaceId with it; when no
\* space has the id nothing changes.
C39_OnlyTheNamedSpaceChanges ==
  store.op \in SpaceOps =>
    /\ SpaceIdsOf(store.spaces) = SpaceIdsOf(store.pre.spaces)
    /\ store.activeSpaceId = store.pre.activeSpaceId
    /\ \A i \in DOMAIN store.spaces :
         store.spaces[i].id # store.id => store.spaces[i] = store.pre.spaces[i]
    /\ ~HasSpace(store.pre.spaces, store.id) => store.spaces = store.pre.spaces

\* C39 happens: of three spaces the one in the middle, which is not the
\* active one, was given a title
C39_Witness ==
  /\ store.op = "updateSpaceTitle"
  /\ Len(store.spaces) = 3
  /\ store.spaces[2].id = store.id
  /\ store.activeSpaceId # store.id
  /\ store.spaces[2].title = tKafka
  /\ store.pre.spaces[2].title # tKafka

(***************************************************************************)
(* Claims on move*.                                                        *)
(***************************************************************************)
MoveOps == {"moveOption", "moveDecision", "moveItem"}

\* C40: moveOption, moveDecision, moveConstraint, moveQuestion and
\* moveReference with a dragged and a target id of the collection, not the
\* same, leave the collection with the dragged entity at the index the target
\* had and the other entities in the order they had, every entity as it
\* was; with an id of no entity, or the same id twice, the collection is as
\* it was; the rest of the canvas is as it was.
C40_MovePutsDraggedAtTargetIndex ==
  last.op \in MoveOps =>
    LET before == last.pre[ReorderedCollection]
        after == canvas[ReorderedCollection]
        fromIndex == FindIndex(before, LAMBDA item : item.id = last.id)
        toIndex == FindIndex(before, LAMBDA item : item.id = last.id2)
    IN /\ \A collection \in Collections \ {ReorderedCollection} :
            canvas[collection] = last.pre[collection]
       /\ canvas.active_option_id = last.pre.active_option_id
       /\ canvas.problem_statement = last.pre.problem_statement
       /\ IF fromIndex = 0 \/ toIndex = 0 \/ last.id = last.id2
            THEN after = before
            ELSE /\ Len(after) = Len(before)
                 /\ after[toIndex] = before[fromIndex]
                 /\ SelectSeq(after, LAMBDA item : item.id # last.id)
                      = SelectSeq(before, LAMBDA item : item.id # last.id)

\* C40 happens: the first of three constraints was dropped on the third and
\* is the third now, the former second and third being first and second
C40_Witness ==
  /\ last.op = "moveItem"
  /\ last.kind = "constraint"
  /\ Len(canvas.constraints) = 3
  /\ last.pre.constraints[1].id = last.id
  /\ last.pre.constraints[3].id = last.id2
  /\ canvas.constraints = <<last.pre.constraints[2], last.pre.constraints[3],
                            last.pre.constraints[1]>>
====
